---- MODULE Spec2Model ----
(***************************************************************************)
(* TableView (src/table-view/table-view.js) and its Row handles            *)
(* (src/table-view/table-view-row.js) as a state machine.                  *)
(*                                                                         *)
(* Row records are JavaScript objects compared by reference: a record is   *)
(* an identity in Ids, its fields live in `heap` (Row.update changes them  *)
(* in place), and its `id` field is the identity itself.  Table indexes    *)
(* and page numbers are zero-based as in the source.  The table body       *)
(* (tbody) is `dom`: the rows written by the last renderPage, each with    *)
(* the record it was drawn from, whether it has the class                  *)
(* table-view-parent and how many child rows follow it.  The checkbox flag *)
(* of a record (options.checkboxProperty) is its field `checked`.          *)
(* The caller hands the table distinct objects: no record is in allRows    *)
(* twice.                                                                  *)
(*                                                                         *)
(* The view base class (src/baseview.js: init promises, view state, event  *)
(* merging) and the validation mixin (src/basemodalview.js) have their own *)
(* variables and their own specifications; names of controls and groups    *)
(* are kept as their characters.                                           *)
(*                                                                         *)
(* The removal of views (src/baseview.js), the modal and its Deferred      *)
(* (BaseModalView of src/basemodalview.js), the invalidate mixin           *)
(* (src/baseview-invalidate.js) and the pager's page links                 *)
(* (src/table-view/table-view-pager.js) follow the same pattern.  jQuery   *)
(* and Backbone are taken as they behave: $.fn.remove cleans the data of   *)
(* the element and its descendants, Backbone's remove calls $el.remove()   *)
(* and stopListening(), a Deferred takes the first resolve or reject.      *)
(***************************************************************************)
EXTENDS Integers, Sequences, FiniteSets, TLC

\* ------------------------------------------------------------- bounds
MaxRec == 3
MaxVal == 2
MaxPage == 1
MaxLength == 12
MaxPageSize == 5

\* options.pageSize of the modelled table
PageSize == 2

Ids == 1..MaxRec
Vals == 1..MaxVal

VARIABLES
  allRows,    \* this.allRows: every record given to the table
  data,       \* this.data: the records displayed (filtered, maybe sorted)
  heap,       \* the fields of each record object
  filter,     \* this.filter
  page,       \* this.page
  sortInfo,   \* this.sortInfo
  colInfos,   \* this.colInfos has been set up (first renderPage)
  dom,        \* the TRs of tbody as last rendered
  row,        \* the Row handle the application keeps (NoRow: none yet)
  showingCheckboxes,  \* this.showingCheckboxes
  ret,        \* what the last call returned when it was a query
              \* (getCheckedObjects, a page count, validate), the classes
              \* given to _applyValidationClasses; <<>> otherwise
  last        \* the last call: its name when made through the kept Row handle
              \* or on the view ("table", "form", "view" for any other call),
              \* how it ended ("none", "assert"
              \* for a failed console.assert, "throw"), the record of the TR
              \* it highlighted (0: none), and whether _indexOfRow found the
              \* handle's record at another index than the handle remembered

\* The view the table lives in: BaseView (src/baseview.js) with the validation
\* mixin (src/basemodalview.js), and the classes views are made from
VARIABLES
  validations,   \* this.validations: the keys of the hash in their order, each
                 \* with its space-separated names and its rule reference;
                 \* <<>> is null
  validationTable,  \* this.validationTable is set
  _validations,  \* this._validations: null, or the entries in key order
  groupMembers,  \* the arrays the entries' groupMembers refer to, by group
  _groupValidationClasses,  \* by group, the (name, class) pairs in key order
  controls,      \* how many controls of the view's DOM carry each name
  vals,          \* the text of the control of each name
  formGroups,    \* the severity classes on each form-group
  ignoreWarningsButtonInfo,  \* configured (ignoreWarningsButton) and warningMode
  _schema,       \* this._schema: the column names, <<>> for null
  __initializing,  \* where the constructor is: "before" it, in "initialize"
                 \* (this.__initializing is set), "done", or "failed" (it threw)
  _initPromises, \* this._initPromises: the promises added; <<>> is null
  promises,      \* the state of each promise
  joined,        \* the $.when of the constructor: its state ("none" when it was
                 \* not made, "waiting", "resolved", "rejected") and its promises
  __viewState,   \* this.__viewState; "" when deleted (the normal state)
  hooks,         \* how often onInitPromisesResolved / onInitPromisesFailed ran
  events,        \* the own `events` hash of each class prototype (if any)
  _mergedEvents, \* the classes whose prototype has its own _mergedEvents
  instantiated   \* the classes in the order they were first instantiated

\* The life of a view and of a modal (src/baseview.js, BaseModalView of
\* src/basemodalview.js), and the views that mix in `invalidate`
\* (src/baseview-invalidate.js)
VARIABLES
  deferred,      \* this.deferred: the Deferred of the last show() by its place in
                 \* deferreds, 0 for null
  deferreds,     \* the Deferreds show() has made: state, the value it was
                 \* resolved with, and how often resolve/reject were called on it
  __modal,       \* this.__modal: "undefined", "shown" by _show, or "hidden" by
                 \* modal('hide')
  el,            \* this.el: whether it is in the document, whether the
                 \* 'baseview-removed' handler is still bound to it, and whether
                 \* it has been removed from the DOM
  _invalid,      \* this._invalid of each view
  timers,        \* the timeouts set by invalidate, in the order they were set:
                 \* the view each will render
  rendering,     \* the view whose render() is running, "" for none
  calls          \* of each view, the invalidate() calls no render() has started
                 \* after yet

tableVars ==
  <<allRows, data, heap, filter, page, sortInfo, colInfos, dom, row,
    showingCheckboxes>>

formVars ==
  <<validations, validationTable, _validations, groupMembers,
    _groupValidationClasses, controls, vals, formGroups,
    ignoreWarningsButtonInfo, _schema>>

initVars == <<__initializing, _initPromises, promises, joined, __viewState, hooks>>

classVars == <<events, _mergedEvents, instantiated>>

lifeVars == <<deferred, deferreds, __modal, el>>

invalidVars == <<_invalid, timers, rendering, calls>>

viewVars == <<formVars, initVars, classVars, lifeVars, invalidVars>>

vars == <<tableVars, ret, last, viewVars>>

\* ------------------------------------------------------------ helpers
Range(s) == {s[i] : i \in 1..Len(s)}

\* s[i] for a zero-based i
At(s, i) == s[i + 1]

\* Array.prototype.indexOf: the first zero-based index of x, or -1
indexOf(s, x) ==
  IF x \in Range(s)
  THEN (CHOOSE i \in 1..Len(s) : s[i] = x /\ \A j \in 1..(i - 1) : s[j] # x) - 1
  ELSE -1

\* Array.prototype.splice(i, 1) for a zero-based i: a negative i counts from the
\* end, an i past the end removes nothing
splice1(s, i) ==
  LET k == IF i < 0 THEN (IF Len(s) + i < 0 THEN 0 ELSE Len(s) + i) ELSE i
  IN  IF k >= Len(s) THEN s
      ELSE [j \in 1..(Len(s) - 1) |-> IF j <= k THEN s[j] ELSE s[j + 1]]

\* s with its zero-based slot i set to x (i is in range)
setAt(s, i, x) == [s EXCEPT ![i + 1] = x]

\* The arrays a caller hands to the constructor and to setRows: the first n
\* records, and all of them in the opposite order
RowArrays ==
  {[i \in 1..n |-> i] : n \in 0..MaxRec} \cup {[i \in 1..MaxRec |-> MaxRec + 1 - i]}

\* ------------------------------------------------------ configuration
NoSort == [idx |-> -1, asc |-> TRUE]

NoRow == [index |-> -1, data |-> 0]

\* options.columns: a column on `name`, a column that does not sort
\* (sort: false) and a column with neither a sort function nor a property.
\* `sort` is FALSE for `sort: false` and TRUE when the option is not given
Columns ==
  << [property |-> "name", sort |-> TRUE],
     [property |-> "id",   sort |-> FALSE],
     [property |-> "",     sort |-> TRUE] >>

ColIdx == 0..(Len(Columns) - 1)

\* A variant that gives every column a comparator
hasSort_always(idx) == TRUE

\* setupColInfos: info.sort is omniSort(col.property) unless col.sort === false
\* or the column has no property
hasSort(idx) == At(Columns, idx).sort /\ At(Columns, idx).property # ""

\* The filters a caller sets: none (returnTrue) or a predicate on `name`
Filters == {"all", "big"}

passes(f, r) == f = "all" \/ heap[r].name >= 2

\* Array.prototype.filter with this.filter
filterRows(s, f) == SelectSeq(s, LAMBDA r : passes(f, r))

\* row[property]; 0 for undefined
colValue(r, property) ==
  IF property = "id" THEN r
  ELSE IF property = "name" THEN heap[r].name
  ELSE 0

\* omniSort's comparator on two numbers
omniSort(property, l, r) ==
  LET lhs == colValue(l, property)
      rhs == colValue(r, property)
  IN  IF rhs = lhs THEN 0 ELSE IF rhs > lhs THEN -1 ELSE 1

colCompare(idx, l, r) == omniSort(At(Columns, idx).property, l, r)

\* Array.prototype.sort(comparator), a stable sort (ECMAScript 2019)
RECURSIVE sortInsert(_, _, _)
sortInsert(s, x, idx) ==
  IF s = <<>> THEN <<x>>
  ELSE IF colCompare(idx, Head(s), x) <= 0
       THEN <<Head(s)>> \o sortInsert(Tail(s), x, idx)
       ELSE <<x>> \o s

\* A variant of the sort that puts tied records in the opposite of their
\* previous order
RECURSIVE sortRows_tiesReversed(_, _)
sortRows_tiesReversed(s, idx) ==
  IF s = <<>> THEN <<>>
  ELSE sortInsert(sortRows_tiesReversed(Tail(s), idx), Head(s), idx)

RECURSIVE sortRows(_, _)
sortRows(s, idx) ==
  IF s = <<>> THEN <<>>
  ELSE sortInsert(sortRows(SubSeq(s, 1, Len(s) - 1), idx), s[Len(s)], idx)

\* A variant of the second click that sorts again, descending by the active
\* column, in place of reversing: tied records keep their order
RECURSIVE reverse_resort(_)
reverse_resort(s) ==
  IF Len(s) <= 1 THEN s
  ELSE LET rest == reverse_resort(SubSeq(s, 1, Len(s) - 1))
           x    == s[Len(s)]
           k    == Cardinality({i \in 1..Len(rest) :
                                  colCompare(sortInfo.idx, rest[i], x) < 0})
       IN  SubSeq(rest, 1, Len(rest) - k) \o <<x>>
             \o SubSeq(rest, Len(rest) - k + 1, Len(rest))

\* Array.prototype.reverse
reverse(s) == [i \in 1..Len(s) |-> s[Len(s) + 1 - i]]

\* ------------------------------------------------------------- paging
tableIndexToPage(tableIndex) == tableIndex \div PageSize

\* A variant that rounds the quotient down
pageCountOf_floor(length, pageSize) == length \div pageSize

\* _pageCount for this.data.length and this.pageSize:
\* Math.floor((length + pageSize - 1) / pageSize)
pageCountOf(length, pageSize) == (length + pageSize - 1) \div pageSize

_pageCount(d) == pageCountOf(Len(d), PageSize)

\* Math.ceil(length / pageSize), as renderPager and the pager compute it
pagerPages(length, pageSize) ==
  LET q == length \div pageSize
  IN  IF q * pageSize = length THEN q ELSE q + 1

Min(a, b) == IF a < b THEN a ELSE b

Max(a, b) == IF a > b THEN a ELSE b

\* renderPage: tbody is emptied and the rows start..stop-1 of this.data are
\* appended, none with a child row
renderPage(d, p) ==
  LET start == p * PageSize
      stop  == Min(Len(d), (p + 1) * PageSize)
  IN  IF stop <= start THEN <<>>
      ELSE [k \in 1..(stop - start) |-> [rec |-> d[start + k], child |-> FALSE, kids |-> 0]]

\* `tbody > tr:not(.table-view-child):eq(pageIndex)` for the table index, as the
\* position in dom (1-based), or 0 when the jQuery object is empty
_elementFromTableIndex(dm, pg, index) ==
  IF tableIndexToPage(index) # pg THEN 0
  ELSE LET pageIndex == index - (pg * PageSize)
       IN  IF pageIndex >= 0 /\ pageIndex < Len(dm) THEN pageIndex + 1 ELSE 0

\* The record drawn in the TR that _highlightTableIndex(index) highlights, 0 when
\* the jQuery object is empty
_highlightTableIndex(dm, pg, index) ==
  LET e == _elementFromTableIndex(dm, pg, index)
  IN  IF e = 0 THEN 0 ELSE dm[e].rec

Done(op, err, hit, moved) == [op |-> op, err |-> err, hit |-> hit, moved |-> moved]

\* ------------------------------------------------------ the idle view
\* A view without validations (validations, validationTable and _validations
\* are null on the prototype) and without controls
NoForm ==
  /\ validations = <<>>
  /\ validationTable = FALSE
  /\ _validations = [null |-> TRUE, entries |-> <<>>]
  /\ groupMembers = <<>>
  /\ _groupValidationClasses = <<>>
  /\ controls = <<>>
  /\ vals = <<>>
  /\ formGroups = <<>>
  /\ ignoreWarningsButtonInfo = [configured |-> FALSE, warningMode |-> FALSE]
  /\ _schema = <<>>

\* A view constructed without init promises
NoInit ==
  /\ __initializing = "done"
  /\ _initPromises = <<>>
  /\ promises = <<>>
  /\ joined = [state |-> "none", promises |-> {}]
  /\ __viewState = ""
  /\ hooks = [resolved |-> 0, failed |-> 0]

\* The views that mix in invalidate
Views == {"v1", "v2"}

\* A view that is not shown, attached or removed
NoLife ==
  /\ deferred = 0
  /\ deferreds = <<>>
  /\ __modal = "undefined"
  /\ el = [inDocument |-> FALSE, handler |-> TRUE, removed |-> FALSE]

\* No view is invalid
NoInvalidate ==
  /\ _invalid = [v \in Views |-> FALSE]
  /\ timers = <<>>
  /\ rendering = ""
  /\ calls = [v \in Views |-> 0]

\* No class declares events
NoClasses ==
  /\ events = <<>>
  /\ _mergedEvents = {}
  /\ instantiated = <<>>

\* --------------------------------------------------------------- Init
\* initialize: allRows = options.data, data = allRows.filter(filter), page 0, no
\* sort, and a first renderPage if there is something to show
Init ==
  /\ allRows \in RowArrays
  /\ heap \in [Ids -> [name : Vals, checked : {FALSE}]]
  /\ filter \in Filters
  /\ data = filterRows(allRows, filter)
  /\ page = 0
  /\ sortInfo = NoSort
  /\ colInfos = (data # <<>>)
  /\ dom = IF data # <<>> THEN renderPage(data, 0) ELSE <<>>
  /\ row = NoRow
  /\ showingCheckboxes = FALSE
  /\ ret = <<>>
  /\ last = Done("table", "none", 0, FALSE)
  /\ NoLife
  /\ NoInvalidate
  /\ NoForm
  /\ NoInit
  /\ NoClasses

\* ------------------------------------------------------ table actions
\* A variant that filters with the filter in force before the call
setRowsTo_staleFilter(rs) ==
  /\ allRows' = rs
  /\ data' = filterRows(rs, filter)
  /\ page' = 0
  /\ colInfos' = TRUE
  /\ dom' = renderPage(data', 0)
  /\ last' = Done("table", "none", 0, FALSE)
  /\ UNCHANGED <<heap, sortInfo, row, showingCheckboxes>> /\ ret' = <<>> /\ UNCHANGED viewVars

setRowsTo(rs) ==
  /\ allRows' = rs
  /\ data' = filterRows(rs, filter')
  /\ page' = 0
  /\ colInfos' = TRUE
  /\ dom' = renderPage(data', 0)
  /\ last' = Done("table", "none", 0, FALSE)
  /\ UNCHANGED <<heap, sortInfo, row, showingCheckboxes>> /\ ret' = <<>> /\ UNCHANGED viewVars

setRows ==
  \E rs \in RowArrays :
    /\ filter' = filter
    /\ setRowsTo(rs)

setFilter ==
  \E f \in Filters :
    /\ filter' = f
    /\ setRowsTo(allRows)

\* onSort(e) for a click on the header of column idx
onSortCol(idx) ==
  /\ UNCHANGED <<showingCheckboxes>> /\ ret' = <<>> /\ UNCHANGED viewVars
  /\ IF ~colInfos
     THEN \* this.colInfos is null before the first render: colInfos[idx] throws
          /\ last' = Done("table", "throw", 0, FALSE)
          /\ UNCHANGED <<allRows, data, heap, filter, page, sortInfo, colInfos, dom, row>>
     ELSE IF ~hasSort(idx)
     THEN \* if (!info.sort) return
          /\ last' = Done("table", "nosort", 0, FALSE)
          /\ UNCHANGED <<allRows, data, heap, filter, page, sortInfo, colInfos, dom, row>>
     ELSE /\ IF sortInfo # NoSort /\ sortInfo.idx = idx
             THEN /\ data' = reverse(data)
                  /\ sortInfo' = [idx |-> idx, asc |-> ~sortInfo.asc]
             ELSE /\ data' = sortRows(data, idx)
                  /\ sortInfo' = [idx |-> idx, asc |-> TRUE]
          /\ page' = 0
          /\ dom' = renderPage(data', 0)
          /\ last' = Done("table", "none", 0, FALSE)
          /\ UNCHANGED <<allRows, heap, filter, colInfos, row>>

\* A click on any header
onSort == \E idx \in ColIdx : onSortCol(idx)

\* onChangePage(e, page): the handler of the base-table:change-page event
changePage(n) ==
  /\ page' = n
  /\ colInfos' = TRUE
  /\ dom' = renderPage(data, n)
  /\ last' = Done("table", "none", 0, FALSE)
  /\ UNCHANGED <<allRows, data, heap, filter, sortInfo, row, showingCheckboxes>> /\ ret' = <<>> /\ UNCHANGED viewVars

\* The event with any page number
onChangePage == \E n \in 0..MaxPage : changePage(n)

\* The event with the number of a page that exists
onChangePageInRange == \E n \in 0..MaxPage : n < _pageCount(data) /\ changePage(n)

\* add(data) with a record that is not in the table
add ==
  \E r \in Ids \ Range(allRows) :
    LET tableIndex == Len(data) IN
    /\ allRows' = Append(allRows, r)
    /\ data' = Append(data, r)
    /\ page' = tableIndexToPage(tableIndex)
    /\ colInfos' = TRUE
    /\ dom' = renderPage(data', page')
    /\ last' = Done("table", "none", 0, FALSE)
    /\ UNCHANGED <<heap, filter, sortInfo, row, showingCheckboxes>> /\ ret' = <<>> /\ UNCHANGED viewVars

\* ------------------------------------------------------- Row handles
\* _.matches(properties) for the property sets the application looks rows up by
Props == [k : {"id"}, v : Ids] \cup [k : {"name"}, v : Vals]

matches(r, props) == colValue(r, props.k) = props.v

\* The zero-based index of the first record of this.data that matches, or -1
firstMatch(props) ==
  IF \E i \in 1..Len(data) : matches(data[i], props)
  THEN (CHOOSE i \in 1..Len(data) :
          /\ matches(data[i], props)
          /\ \A j \in 1..(i - 1) : ~matches(data[j], props)) - 1
  ELSE -1

\* findWhere(properties): a Row for the first match, which the application
\* keeps in place of its old one; null (nothing new to keep) without a match
findWhere ==
  \E props \in Props :
    LET i == firstMatch(props) IN
    /\ row' = IF i >= 0 THEN [index |-> i, data |-> At(data, i)] ELSE row
    /\ last' = Done("table", "none", 0, FALSE)
    /\ UNCHANGED <<allRows, data, heap, filter, page, sortInfo, colInfos, dom,
                   showingCheckboxes>> /\ ret' = <<>> /\ UNCHANGED viewVars

\* A variant that trusts the remembered index whenever it is within this.data
_indexOfRow_trustIndex(index, d) ==
  IF index >= 0 /\ index < Len(data)
  THEN index
  ELSE indexOf(data, d)

_indexOfRow(index, d) ==
  IF index >= 0 /\ index < Len(data) /\ At(data, index) = d
  THEN index
  ELSE indexOf(data, d)

\* A variant that stores the new record in this.data only
_replaceRow_dataOnly(found, oldData, newData, render, highlight, op) ==
  IF found < 0
  THEN /\ last' = Done(op, "assert", 0, FALSE)
       /\ UNCHANGED <<allRows, data, filter, page, sortInfo, colInfos, dom>>
  ELSE /\ data' = setAt(data, found, newData)
       /\ dom' = IF render /\ tableIndexToPage(found) = page
                 THEN renderPage(data', page)
                 ELSE dom
       /\ last' = Done(op, "none",
                       IF highlight THEN _highlightTableIndex(dom', page, found) ELSE 0,
                       found # row.index)
       /\ UNCHANGED <<allRows, filter, page, sortInfo, colInfos>>

\* _replaceRow(index, oldData, newData, options): both arrays, the redraw of the
\* row's page and the highlight; -1 and nothing else when the row is not found.
\* `found` is the index _replaceRow returns
_replaceRow(found, oldData, newData, render, highlight, op) ==
  IF found < 0
  THEN \* console.assert(index >= 0) fails
       /\ last' = Done(op, "assert", 0, FALSE)
       /\ UNCHANGED <<allRows, data, filter, page, sortInfo, colInfos, dom>>
  ELSE LET allIndex == indexOf(allRows, oldData) IN
       /\ data' = setAt(data, found, newData)
       /\ allRows' = IF allIndex >= 0 THEN setAt(allRows, allIndex, newData) ELSE allRows
       /\ dom' = IF render /\ tableIndexToPage(found) = page
                 THEN renderPage(data', page)
                 ELSE dom
       /\ last' = Done(op, "none",
                       IF highlight THEN _highlightTableIndex(dom', page, found) ELSE 0,
                       found # row.index)
       /\ UNCHANGED <<filter, page, sortInfo, colInfos>>

\* Row.replace(newData) with a record that is not in the table, and no options
\* (render, no highlight)
RowReplace ==
  \E newData \in Ids \ Range(allRows) :
    LET found == _indexOfRow(row.index, row.data) IN
    /\ row # NoRow
    /\ row' = [index |-> found, data |-> newData]
    /\ _replaceRow(found, row.data, newData, TRUE, FALSE, "replace")
    /\ UNCHANGED <<heap, showingCheckboxes>> /\ ret' = <<>> /\ UNCHANGED viewVars

\* A variant that overwrites the record's fields with the new ones in place of
\* merging them
RowUpdateTo_overwrite(v) ==
  LET found == _indexOfRow(row.index, row.data) IN
  /\ row # NoRow
  /\ heap' = [heap EXCEPT ![row.data] = [name |-> v, checked |-> FALSE]]
  /\ row' = [row EXCEPT !.index = found]
  /\ _replaceRow(found, row.data, row.data, TRUE, FALSE, "update")
  /\ UNCHANGED <<showingCheckboxes>> /\ ret' = <<>> /\ UNCHANGED viewVars

\* Row.update({name: v}): $.extend changes the record in place, then
\* _replaceRow(index, data, data)
RowUpdateTo(v) ==
  LET found == _indexOfRow(row.index, row.data) IN
  /\ row # NoRow
  /\ heap' = [heap EXCEPT ![row.data].name = v]
  /\ row' = [row EXCEPT !.index = found]
  /\ _replaceRow(found, row.data, row.data, TRUE, FALSE, "update")
  /\ UNCHANGED <<showingCheckboxes>> /\ ret' = <<>> /\ UNCHANGED viewVars

RowUpdate == \E v \in Vals : RowUpdateTo(v)

\* _removeTableIndex(index) for an index of this.data
_removeTableIndex(index) ==
  LET r  == At(data, index)
      pg == Max(0, tableIndexToPage(index - 1))
      i  == indexOf(allRows, r)
  IN
  /\ data' = splice1(data, index)
  /\ allRows' = splice1(allRows, i)
  /\ IF pg = page
     THEN /\ page' = IF pg > 0 /\ index = Len(data')
                     THEN tableIndexToPage(i - 1)
                     ELSE page
          /\ dom' = renderPage(data', page')
     ELSE UNCHANGED <<page, dom>>
  /\ UNCHANGED <<heap, filter, sortInfo, colInfos>>

\* A variant without the `if (index >= 0)` guard: a record that is not found
\* removes whatever is at the remembered index
_removeRow_unguarded(index, d, op) ==
  LET found == _indexOfRow(index, d) IN
  IF found >= 0 \/ (index >= 0 /\ index < Len(data))
  THEN /\ _removeTableIndex(IF found >= 0 THEN found ELSE index)
       /\ last' = Done(op, IF found >= 0 THEN "none" ELSE "assert", 0, found # index)
  ELSE /\ last' = Done(op, "assert", 0, FALSE)
       /\ UNCHANGED <<allRows, data, heap, filter, page, sortInfo, colInfos, dom>>

\* _removeRow(index, data)
_removeRow(index, d, op) ==
  LET found == _indexOfRow(index, d) IN
  IF found >= 0
  THEN /\ _removeTableIndex(found)
       /\ last' = Done(op, "none", 0, found # index)
  ELSE \* console.assert(index >= 0, 'Cannot find row to remove') fails
       /\ last' = Done(op, "assert", 0, FALSE)
       /\ UNCHANGED <<allRows, data, heap, filter, page, sortInfo, colInfos, dom>>

\* Row.remove() through the kept handle
RowRemove ==
  /\ row # NoRow
  /\ UNCHANGED <<showingCheckboxes>> /\ ret' = <<>> /\ UNCHANGED viewVars
  /\ IF row.index >= 0
     THEN /\ _removeRow(row.index, row.data, "remove")
          /\ row' = [row EXCEPT !.index = -1]
     ELSE /\ last' = Done("remove", "none", 0, FALSE)
          /\ UNCHANGED <<allRows, data, heap, filter, page, sortInfo, colInfos, dom, row>>

\* table.findWhere(properties).remove(): a Row made for the first match and used
\* at once, while the application keeps its other handle
removeWhere ==
  \E props \in Props :
    LET i == firstMatch(props) IN
    /\ i >= 0
    /\ _removeRow(i, At(data, i), "table")
    /\ UNCHANGED <<row, showingCheckboxes>> /\ ret' = <<>> /\ UNCHANGED viewVars

\* Row.highlight()
RowHighlight ==
  /\ row # NoRow
  /\ last' = Done("highlight", "none",
                  IF row.index >= 0 THEN _highlightTableIndex(dom, page, row.index) ELSE 0,
                  FALSE)
  /\ UNCHANGED <<allRows, data, heap, filter, page, sortInfo, colInfos, dom, row,
                 showingCheckboxes>> /\ ret' = <<>> /\ UNCHANGED viewVars

\* ---------------------------------------------------------- child rows
\* _hasChild(tableIndex): the TR of the table index has the class
\* table-view-parent (FALSE for an empty jQuery object)
_hasChild(dm, pg, tableIndex) ==
  LET e == _elementFromTableIndex(dm, pg, tableIndex)
  IN  e # 0 /\ dm[e].child

\* A variant that does not look for an existing child row
_createChild_noParentCheck(tableIndex, content) ==
  LET parent == _elementFromTableIndex(dom, page, tableIndex) IN
  IF tableIndex < 0 \/ parent = 0 \/ ~content
  THEN /\ last' = Done("createChild", "throw", 0, FALSE)
       /\ UNCHANGED dom
  ELSE /\ dom' = [dom EXCEPT ![parent].child = TRUE, ![parent].kids = @ + 1]
       /\ last' = Done("createChild", "none", dom[parent].rec, FALSE)

\* _createChild(tableIndex, options); `content` tells whether options.content
\* is given
_createChild(tableIndex, content) ==
  LET parent == _elementFromTableIndex(dom, page, tableIndex) IN
  IF tableIndex < 0
  THEN \* 'Cannot create a child row for a row that has been deleted ...'
       /\ last' = Done("createChild", "throw", 0, FALSE)
       /\ UNCHANGED dom
  ELSE IF parent = 0
  THEN \* 'Child rows can only be added to visible rows'
       /\ last' = Done("createChild", "throw", 0, FALSE)
       /\ UNCHANGED dom
  ELSE IF dom[parent].child
  THEN \* 'This row already has a child!'
       /\ last' = Done("createChild", "throw", 0, FALSE)
       /\ UNCHANGED dom
  ELSE IF ~content
  THEN \* 'No content was provided for the child row'
       /\ last' = Done("createChild", "throw", 0, FALSE)
       /\ UNCHANGED dom
  ELSE \* parent.addClass('table-view-parent').after(child)
       /\ dom' = [dom EXCEPT ![parent].child = TRUE, ![parent].kids = @ + 1]
       /\ last' = Done("createChild", "none", dom[parent].rec, FALSE)

\* _removeChild(tableIndex)
_removeChild(tableIndex) ==
  LET parent == _elementFromTableIndex(dom, page, tableIndex) IN
  IF tableIndex < 0 \/ parent = 0
  THEN \* 'Child rows only exist on visible rows'
       /\ last' = Done("removeChild", "throw", 0, FALSE)
       /\ UNCHANGED dom
  ELSE IF ~dom[parent].child
  THEN \* 'This row does not have a child!'
       /\ last' = Done("removeChild", "throw", 0, FALSE)
       /\ UNCHANGED dom
  ELSE \* parent.removeClass('table-view-parent').next().remove()
       /\ dom' = [dom EXCEPT ![parent].child = FALSE, ![parent].kids = @ - 1]
       /\ last' = Done("removeChild", "none", dom[parent].rec, FALSE)

\* Row.createChild(options) through the kept handle, with or without
\* options.content
RowCreateChildWith(content) ==
  /\ row # NoRow
  /\ _createChild(row.index, content)
  /\ UNCHANGED <<allRows, data, heap, filter, page, sortInfo, colInfos, row,
                 showingCheckboxes>> /\ ret' = <<>> /\ UNCHANGED viewVars

RowCreateChild == \E content \in BOOLEAN : RowCreateChildWith(content)

\* Row.removeChild() through the kept handle
RowRemoveChild ==
  /\ row # NoRow
  /\ _removeChild(row.index)
  /\ UNCHANGED <<allRows, data, heap, filter, page, sortInfo, colInfos, row,
                 showingCheckboxes>> /\ ret' = <<>> /\ UNCHANGED viewVars

\* ---------------------------------------------------------- checkboxes
\* The value a forEach over this.data gives the flag of record r: true
\* ("all"), false ("none") or its negation ("toggle")
newFlag(mode, r) ==
  IF mode = "all" THEN TRUE
  ELSE IF mode = "none" THEN FALSE
  ELSE ~heap[r].checked

\* this.data.forEach(function(row) { row[cp] = ...; })
setChecked(mode) ==
  [r \in Ids |-> IF r \in Range(data)
                 THEN [heap[r] EXCEPT !.checked = newFlag(mode, r)]
                 ELSE heap[r]]

\* The initialValue option of showCheckboxes: not given, or false
InitialValues == {"undefined", "false"}

\* showCheckboxes(options) with options.initialValue, rendering
showCheckboxesWith(initialValue) ==
  /\ last' = Done("table", "none", 0, FALSE)
  /\ UNCHANGED <<allRows, data, filter, page, sortInfo, row>> /\ ret' = <<>> /\ UNCHANGED viewVars
  /\ IF showingCheckboxes
     THEN UNCHANGED <<heap, colInfos, dom, showingCheckboxes>>
     ELSE /\ showingCheckboxes' = TRUE
          /\ heap' = IF initialValue = "false"
                     THEN setChecked("none")
                     ELSE heap
          /\ colInfos' = TRUE
          /\ dom' = renderPage(data, page)

showCheckboxes == \E initialValue \in InitialValues : showCheckboxesWith(initialValue)

hideCheckboxes ==
  /\ last' = Done("table", "none", 0, FALSE)
  /\ UNCHANGED <<allRows, data, heap, filter, page, sortInfo, row>> /\ ret' = <<>> /\ UNCHANGED viewVars
  /\ IF ~showingCheckboxes
     THEN UNCHANGED <<colInfos, dom, showingCheckboxes>>
     ELSE /\ showingCheckboxes' = FALSE
          /\ colInfos' = TRUE
          /\ dom' = renderPage(data, page)

\* A handler of the check-all / check-none / toggle links of the checkbox
\* header, which is in the page while checkboxes are shown
checkMenu(mode) ==
  /\ showingCheckboxes
  /\ heap' = setChecked(mode)
  /\ colInfos' = TRUE
  /\ dom' = renderPage(data, page)
  /\ last' = Done("table", "none", 0, FALSE)
  /\ UNCHANGED <<allRows, data, filter, page, sortInfo, row, showingCheckboxes>> /\ ret' = <<>> /\ UNCHANGED viewVars

\* A variant of check-all that sets the flag of every record of this.allRows
onCheckAll_allRows ==
  /\ showingCheckboxes
  /\ heap' = [r \in Ids |-> IF r \in Range(allRows)
                             THEN [heap[r] EXCEPT !.checked = TRUE]
                             ELSE heap[r]]
  /\ colInfos' = TRUE
  /\ dom' = renderPage(data, page)
  /\ last' = Done("table", "none", 0, FALSE)
  /\ UNCHANGED <<allRows, data, filter, page, sortInfo, row, showingCheckboxes>> /\ ret' = <<>> /\ UNCHANGED viewVars

\* A variant of getCheckedObjects over this.allRows
getCheckedObjects_allRows ==
  /\ UNCHANGED <<allRows, data, heap, filter, page, sortInfo, colInfos, dom, row,
                 showingCheckboxes>>
  /\ IF ~showingCheckboxes
     THEN /\ last' = Done("getCheckedObjects", "throw", 0, FALSE)
          /\ ret' = <<>> /\ UNCHANGED viewVars
     ELSE /\ ret' = SelectSeq(allRows, LAMBDA r : heap[r].checked) /\ UNCHANGED viewVars
          /\ last' = Done("getCheckedObjects", "none", 0, FALSE)

onCheckAll == checkMenu("all")

onUncheckAll == checkMenu("none")

onToggleCheckboxes == checkMenu("toggle")

\* pageIndexToTableIndex for the k-th data row of tbody (k from 1): child rows
\* above it are not counted
pageIndexToTableIndex(k) == (page * PageSize) + (k - 1)

\* onCheckboxChange(e): the user clicks the checkbox of the k-th data row
onCheckboxChange ==
  \E k \in 1..Len(dom) :
    LET index == pageIndexToTableIndex(k) IN
    /\ showingCheckboxes
    /\ UNCHANGED <<allRows, data, filter, page, sortInfo, colInfos, dom, row,
                   showingCheckboxes>> /\ ret' = <<>> /\ UNCHANGED viewVars
    /\ IF index < Len(data)
       THEN /\ heap' = [heap EXCEPT ![At(data, index)].checked = ~@]
            /\ last' = Done("table", "none", 0, FALSE)
       ELSE \* this.data[index] is undefined: row[cp] = ... throws
            /\ last' = Done("table", "throw", 0, FALSE)
            /\ UNCHANGED heap

\* getCheckedObjects()
getCheckedObjects ==
  /\ UNCHANGED <<allRows, data, heap, filter, page, sortInfo, colInfos, dom, row,
                 showingCheckboxes>>
  /\ IF ~showingCheckboxes
     THEN \* 'Checkboxes are not being shown'
          /\ last' = Done("getCheckedObjects", "throw", 0, FALSE)
          /\ ret' = <<>> /\ UNCHANGED viewVars
     ELSE /\ ret' = SelectSeq(data, LAMBDA r : heap[r].checked) /\ UNCHANGED viewVars
          /\ last' = Done("getCheckedObjects", "none", 0, FALSE)

\* ---------------------------------------------------------- page counts
\* _pageCount() and the pager's page count for a table of `length` displayed
\* records and a page size
countPages ==
  \E length \in 0..MaxLength, pageSize \in 1..MaxPageSize :
    /\ ret' = [length    |-> length,
               pageSize  |-> pageSize,
               pageCount |-> pageCountOf(length, pageSize),
               pages     |-> pagerPages(length, pageSize)]
    /\ last' = Done("pages", "none", 0, FALSE)
    /\ UNCHANGED <<allRows, data, heap, filter, page, sortInfo, colInfos, dom, row,
                   showingCheckboxes>>
    /\ UNCHANGED viewVars

\* --------------------------------------------- validation: the DOM's view
\* An empty table: the state of the table variables of a view whose table is
\* not in use
NoTable ==
  /\ allRows = <<>>
  /\ heap = [i \in Ids |-> [name |-> 1, checked |-> FALSE]]
  /\ filter = "all"
  /\ data = <<>>
  /\ page = 0
  /\ sortInfo = NoSort
  /\ colInfos = FALSE
  /\ dom = <<>>
  /\ row = NoRow
  /\ showingCheckboxes = FALSE

\* obj[key] of a JavaScript object held as a function: `none` when the key is
\* not an own key
get(obj, key, none) == IF key \in DOMAIN obj THEN obj[key] ELSE none

\* obj[key] = value
put(obj, key, value) ==
  [k \in DOMAIN obj \cup {key} |-> IF k = key THEN value ELSE obj[k]]

\* the nonempty sequences over S of at most n elements
SeqsUpTo(S, n) == UNION {[1..k -> S] : k \in 1..n}

\* ------------------------------------------------ validation: compiling
\* Names are kept as their characters, so that the two regular expressions
\* of _createValidations work on them.
MaxKeys == 2
MaxNames == 2

Fields == {<<"a">>, <<"b">>}
GroupNames == {<<"g">>}

\* The ways a name of a validations key is written: plain, optional,
\* grouped, and both markers in either order
NameForms(f, g) ==
  { f,
    f \o <<"?">>,
    f \o <<"{">> \o g \o <<"}">>,
    f \o <<"?", "{">> \o g \o <<"}">>,
    f \o <<"{">> \o g \o <<"}", "?">> }

KeyNames == UNION {NameForms(f, g) : f \in Fields, g \in GroupNames}

\* settings.col of an entry that is not generated from the schema (undefined)
NoCol == [name |-> <<>>, nullable |-> TRUE, has_default |-> FALSE]

\* this[value]: the view has the methods `required` (the mixin's) and `check`
\* (the view's own rule); "nosuch" names no method
Methods == {"required", "check"}
Rules == Methods \cup {"nosuch"}

\* A key of the validations hash: keys.split(/\s+/) and the rule reference
Keys == [names : SeqsUpTo(KeyNames, MaxNames), rule : Rules]

\* A validations hash: its keys are distinct strings, enumerated in the order
\* they were written
Hashes ==
  {h \in SeqsUpTo(Keys, MaxKeys) :
     \A i, j \in 1..Len(h) : h[i].names = h[j].names => i = j}

\* /[?]$/.test(name)
endsWithMark(name) == Len(name) > 0 /\ name[Len(name)] = "?"

\* /^(.+)\{(.+)\}$/.exec(name): the places of a "{" with at least one
\* character before it and one between it and the closing "}"
bracePlaces(name) ==
  IF Len(name) >= 4 /\ name[Len(name)] = "}"
  THEN {i \in 2..(Len(name) - 2) : name[i] = "{"}
  ELSE {}

\* A variant of parseName that looks for the group tag before the "?"
parseName_groupFirst(token) ==
  LET places == bracePlaces(token)
      at     == CHOOSE i \in places : \A j \in places : j <= i
      name   == IF places = {} THEN token ELSE SubSeq(token, 1, at - 1)
      mayNotExist == endsWithMark(name)
  IN  [name        |-> IF mayNotExist THEN SubSeq(name, 1, Len(name) - 1) ELSE name,
       group       |-> IF places = {} THEN <<>>
                       ELSE SubSeq(token, at + 1, Len(token) - 1),
       mayNotExist |-> mayNotExist]

\* The body of the forEach up to line 377: the trailing "?" is cut off, then
\* the (greedy) match splits the name at its last fitting "{"
parseName(token) ==
  LET mayNotExist == endsWithMark(token)
      name   == IF mayNotExist THEN SubSeq(token, 1, Len(token) - 1) ELSE token
      places == bracePlaces(name)
      at     == CHOOSE i \in places : \A j \in places : j <= i
  IN  IF places = {}
      THEN [name |-> name, group |-> <<>>, mayNotExist |-> mayNotExist]
      ELSE [name        |-> SubSeq(name, 1, at - 1),
            group       |-> SubSeq(name, at + 1, Len(name) - 1),
            mayNotExist |-> mayNotExist]

\* this._validations[name] = settings: a new key goes last, an existing key
\* keeps its place and gets the new settings
putEntry(entries, e) ==
  IF \E i \in 1..Len(entries) : entries[i].name = e.name
  THEN [i \in 1..Len(entries) |->
          IF entries[i].name = e.name THEN e ELSE entries[i]]
  ELSE Append(entries, e)

\* One name of a key (lines 361-395).  The name is pushed on its group's
\* array before func.bind(this) throws a TypeError for a rule reference that
\* names no method (the console.assert of line 359 does not stop anything).
compileName(st, token, rule) ==
  LET p == parseName(token)
      members ==
        IF p.group # <<>>
        THEN put(st.members, p.group, Append(get(st.members, p.group, <<>>), p.name))
        ELSE st.members
  IN  IF st.err # "none" THEN st
      ELSE IF rule \notin Methods
      THEN [st EXCEPT !.members = members, !.err = "throw"]
      ELSE [entries |-> putEntry(st.entries,
                                 [name        |-> p.name,
                                  group       |-> p.group,
                                  mayNotExist |-> p.mayNotExist,
                                  generated   |-> FALSE,
                                  func        |-> rule,
                                  col         |-> NoCol]),
            members |-> members,
            err     |-> "none"]

RECURSIVE compileNames(_, _, _)
compileNames(st, names, rule) ==
  IF names = <<>> THEN st
  ELSE compileNames(compileName(st, Head(names), rule), Tail(names), rule)

\* for (var keys in this.validations)
RECURSIVE compileKeys(_, _)
compileKeys(st, keys) ==
  IF keys = <<>> THEN st
  ELSE compileKeys(compileNames(st, Head(keys).names, Head(keys).rule), Tail(keys))

\* What _createValidations leaves for a validations hash: the entries, the
\* group arrays, and whether it threw
compile(hash) ==
  compileKeys([entries |-> <<>>, members |-> <<>>, err |-> "none"], hash)

\* _createValidations()
_createValidations ==
  /\ validations # <<>>
  /\ _validations.null
  /\ LET st == compile(validations)
     IN  /\ _validations' = [null |-> FALSE, entries |-> st.entries]
         /\ groupMembers' = st.members
         /\ _groupValidationClasses' = <<>>
         /\ last' = Done("_createValidations", st.err, 0, FALSE)
  /\ ret' = <<>>
  /\ UNCHANGED <<validations, validationTable, controls, vals, formGroups,
                 ignoreWarningsButtonInfo, _schema>>
  /\ UNCHANGED <<tableVars, lifeVars, invalidVars, initVars, classVars>>

\* settings.groupMembers of an entry: the array of its group, null (<<>>)
\* for an entry without group
groupMembersOf(e) == IF e.group = <<>> THEN <<>> ELSE get(groupMembers, e.group, <<>>)

\* this._validations[name]
entryOf(name) ==
  LET es == _validations.entries
  IN  IF \E i \in 1..Len(es) : es[i].name = name
      THEN <<es[CHOOSE i \in 1..Len(es) : es[i].name = name]>>
      ELSE <<>>

\* ------------------------------------------- validation: from the schema
\* The settings onInitPromisesResolved makes for the columns of the schema
\* that have no entry yet (lines 312-321)
RECURSIVE autoValidations(_, _)
autoValidations(entries, cols) ==
  IF cols = <<>> THEN entries
  ELSE autoValidations(
         IF \E i \in 1..Len(entries) : entries[i].name = Head(cols).name
         THEN entries
         ELSE Append(entries, [name        |-> Head(cols).name,
                               group       |-> <<>>,
                               mayNotExist |-> TRUE,
                               generated   |-> TRUE,
                               func        |-> "auto",
                               col         |-> Head(cols)]),
         Tail(cols))

\* --------------------------------------------- validation: the classes
\* What a validation function hands back as className: "null" stands for null
\* or undefined (no result, or a result without className), "has-odd" for a
\* class that is none of the three
ClassNames == {"null", "has-success", "has-warning", "has-error", "has-odd"}

MaxClassNames == 3

classes == <<"null", "has-success", "has-warning", "has-error">>

SeverityClasses == {"has-success", "has-warning", "has-error"}

\* A variant of the reduce in which the last class given wins
RECURSIVE maxIndex_lastWins(_, _)
maxIndex_lastWins(prevIndex, classNames) ==
  IF classNames = <<>> THEN prevIndex
  ELSE maxIndex_lastWins(IF Head(classNames) = "null" THEN prevIndex
                         ELSE Max(0, indexOf(classes, Head(classNames))),
                         Tail(classNames))

\* classNames.reduce(function(prevIndex, className) {...}, 0) of lines 511-515
RECURSIVE maxIndex(_, _)
maxIndex(prevIndex, classNames) ==
  IF classNames = <<>> THEN prevIndex
  ELSE maxIndex(IF Head(classNames) = "null" THEN prevIndex
                ELSE Max(prevIndex, indexOf(classes, Head(classNames))),
                Tail(classNames))

\* _applyValidationClasses(target, classNames) on the form-groups fgs, fg being
\* target.closest('.form-group'); "" when the target matches no control, and
\* then removeClass and addClass have nothing to work on
_applyValidationClasses(fgs, fg, classNames) ==
  IF fg = "" THEN fgs
  ELSE put(fgs, fg,
           (get(fgs, fg, {}) \ SeverityClasses)
             \cup (IF maxIndex(0, classNames) > 0
                   THEN {At(classes, maxIndex(0, classNames))}
                   ELSE {}))

\* _applyValidationClasses on the form-group "fg" with a list of classes
applyClasses ==
  \E classNames \in {<<>>} \cup SeqsUpTo(ClassNames, MaxClassNames) :
    /\ formGroups' = _applyValidationClasses(formGroups, "fg", classNames)
    /\ ret' = classNames
    /\ last' = Done("_applyValidationClasses", "none", 0, FALSE)
    /\ UNCHANGED <<validations, validationTable, _validations, groupMembers,
                   _groupValidationClasses, controls, vals,
                   ignoreWarningsButtonInfo, _schema>>
    /\ UNCHANGED <<tableVars, lifeVars, invalidVars, initVars, classVars>>

\* ------------------------------------------- validation: the form's DOM
\* What the user can have typed into a control
Texts == {"", "w", "e"}

\* How many controls at most carry one name
MaxControls == 2

\* this.$('[name=' + name + ']').length
count(name) == get(controls, name, 0)

\* target.closest('.form-group') for the control(s) named name: the controls
\* of a group stand under one form-group (lines 172-175), which goes by the
\* group's name here, every other control under a form-group of its own; ""
\* when no control has the name
formGroupOf(name) ==
  IF count(name) = 0 THEN ""
  ELSE IF entryOf(name) # <<>> /\ entryOf(name)[1].group # <<>>
  THEN entryOf(name)[1].group
  ELSE name

\* settings.func(val, target, options).className: `required` (lines 248-255),
\* the schema's _autoValidateFunc (lines 431-442), and the view's own `check`,
\* which finds "w" worth a warning, "e" an error and "s" a success
RuleResult(func, val, col) ==
  CASE func = "required" -> IF val = "" THEN "has-error" ELSE "null"
    [] func = "auto" -> IF val = "" /\ ~col.nullable /\ ~col.has_default
                        THEN "has-error" ELSE "null"
    [] func = "check" -> CASE val = "w" -> "has-warning"
                           [] val = "e" -> "has-error"
                           [] val = "s" -> "has-success"
                           [] OTHER     -> "null"

\* controls[name] = className on the (name, class) pairs of a group
putClass(pairs, name, className) ==
  IF \E i \in 1..Len(pairs) : pairs[i].name = name
  THEN [i \in 1..Len(pairs) |->
          IF pairs[i].name = name THEN [name |-> name, cls |-> className]
          ELSE pairs[i]]
  ELSE Append(pairs, [name |-> name, cls |-> className])

\* _.values(controls)
values(pairs) == [i \in 1..Len(pairs) |-> pairs[i].cls]

\* A variant that puts the class of a grouped control on the form-group at once
_validateField_applying(st, e) ==
  LET className == RuleResult(e.func, get(vals, e.name, ""), e.col)
  IN  [st EXCEPT !.fgs = _applyValidationClasses(st.fgs, formGroupOf(e.name),
                                                 <<className>>),
                 !.cache = IF e.group = <<>> THEN st.cache
                           ELSE put(st.cache, e.group,
                                    putClass(get(st.cache, e.group, <<>>),
                                             e.name, className)),
                 !.done = @ \cup {e.name}]

\* _validateField(target, settings, options) for the one control named e.name,
\* on st: the classes cached by group (cache), the form-groups (fgs) and the
\* names validated so far (done)
_validateField(st, e) ==
  LET className == RuleResult(e.func, get(vals, e.name, ""), e.col)
  IN  IF e.group = <<>>
      THEN [st EXCEPT !.fgs = _applyValidationClasses(st.fgs, formGroupOf(e.name),
                                                       <<className>>),
                      !.done = @ \cup {e.name}]
      ELSE [st EXCEPT !.cache = put(st.cache, e.group,
                                    putClass(get(st.cache, e.group, <<>>),
                                             e.name, className)),
                      !.done = @ \cup {e.name}]

\* A variant of the loop of validate that takes a missing control for an
\* optional one
RECURSIVE validateEntries_lenient(_, _)
validateEntries_lenient(st, entries) ==
  IF entries = <<>> THEN st
  ELSE IF count(Head(entries).name) # 1
  THEN validateEntries_lenient(st, Tail(entries))
  ELSE validateEntries_lenient(_validateField(st, Head(entries)), Tail(entries))

\* _.each(this._validations, ...) of validate (lines 528-552); err is "throw"
\* once the Error of line 543 is thrown, and the loop is left
RECURSIVE validateEntries(_, _)
validateEntries(st, entries) ==
  IF entries = <<>> \/ st.err # "none" THEN st
  ELSE IF Head(entries).mayNotExist /\ count(Head(entries).name) = 0
  THEN validateEntries(st, Tail(entries))
  ELSE IF Head(entries).generated /\ count(Head(entries).name) = 0
  THEN validateEntries(st, Tail(entries))
  ELSE IF count(Head(entries).name) # 1
  THEN [st EXCEPT !.err = "throw"]
  ELSE validateEntries(_validateField(st, Head(entries)), Tail(entries))

\* _.each(this._groupValidationClasses, ...) of validate (lines 556-567): the
\* form-group is the one of the first control name of the group's cache
RECURSIVE resolveGroups(_, _, _)
resolveGroups(fgs, cache, groups) ==
  IF groups = {} THEN fgs
  ELSE LET g == CHOOSE x \in groups : TRUE
       IN  resolveGroups(
             IF cache[g] # <<>>
             THEN _applyValidationClasses(fgs, formGroupOf(cache[g][1].name),
                                          values(cache[g]))
             ELSE fgs,
             cache, groups \ {g})

\* this.$('.' + cls + ':first').length > 0
hasClass(fgs, cls) == \E fg \in DOMAIN fgs : cls \in fgs[fg]

\* A variant that never enters the warning mode
setWarningButtonMode_off(flag) == [ignoreWarningsButtonInfo EXCEPT !.warningMode = FALSE]

\* A variant that leaves the mode as it is
setWarningButtonMode_keep(flag) == ignoreWarningsButtonInfo

\* setWarningButtonMode(flag)
setWarningButtonMode(flag) == [ignoreWarningsButtonInfo EXCEPT !.warningMode = flag]

\* The state validate() leaves behind its two loops
validated ==
  LET st0 == [cache |-> _groupValidationClasses, fgs |-> formGroups,
              done |-> {}, err |-> "none"]
      st1 == IF _validations.null THEN st0
             ELSE validateEntries(st0, _validations.entries)
  IN  IF _validations.null \/ st1.err # "none" THEN st1
      ELSE [st1 EXCEPT !.fgs = resolveGroups(st1.fgs, st1.cache, DOMAIN st1.cache)]

\* validate(), manualValidate being the empty hook of lines 257-263.  ret is
\* what it returned, <<>> when it threw
validate ==
  /\ _groupValidationClasses' = validated.cache
  /\ formGroups' = validated.fgs
  /\ IF validated.err # "none"
     THEN /\ ret' = <<>>
          /\ last' = Done("validate", "throw", 0, FALSE)
          /\ UNCHANGED ignoreWarningsButtonInfo
     ELSE IF hasClass(validated.fgs, "has-error")
     THEN /\ ret' = <<FALSE>>
          /\ last' = Done("validate", "none", 0, FALSE)
          /\ UNCHANGED ignoreWarningsButtonInfo
     ELSE IF /\ ignoreWarningsButtonInfo.configured
             /\ ~ignoreWarningsButtonInfo.warningMode
             /\ hasClass(validated.fgs, "has-warning")
     THEN /\ ret' = <<FALSE>>
          /\ last' = Done("validate", "none", 0, FALSE)
          /\ ignoreWarningsButtonInfo' = setWarningButtonMode(TRUE)
     ELSE /\ ret' = <<TRUE>>
          /\ last' = Done("validate", "none", 0, FALSE)
          /\ UNCHANGED ignoreWarningsButtonInfo
  /\ UNCHANGED <<validations, validationTable, _validations, groupMembers,
                 controls, vals, _schema>>
  /\ UNCHANGED <<tableVars, lifeVars, invalidVars, initVars, classVars>>

\* _onFocusOut(e): focus leaves a control named name for the control named
\* next (<<>>: for no control, or one without name).  The handler is bound by
\* _createValidations (line 334).  ret keeps the two names and whether the
\* warning mode was reset.
_onFocusOut(name, next) ==
  /\ validations # <<>>
  /\ ~_validations.null
  /\ count(name) > 0
  /\ IF entryOf(name) = <<>>
     THEN \* if (!settings) return;
          /\ UNCHANGED <<_groupValidationClasses, formGroups, ignoreWarningsButtonInfo>>
          /\ ret' = [name |-> name, next |-> next, reset |-> FALSE]
     ELSE /\ LET e  == entryOf(name)[1]
                 st == _validateField([cache |-> _groupValidationClasses,
                                       fgs |-> formGroups, done |-> {}, err |-> "none"], e)
             IN  /\ _groupValidationClasses' = st.cache
                 /\ formGroups' =
                      IF e.group # <<>> /\ indexOf(groupMembersOf(e), next) = -1
                      THEN _applyValidationClasses(st.fgs, formGroupOf(name),
                                                   values(st.cache[e.group]))
                      ELSE st.fgs
          /\ ignoreWarningsButtonInfo' =
               IF ignoreWarningsButtonInfo.configured /\ ignoreWarningsButtonInfo.warningMode
               THEN setWarningButtonMode(FALSE)
               ELSE ignoreWarningsButtonInfo
          /\ ret' = [name |-> name, next |-> next,
                     reset |-> /\ ignoreWarningsButtonInfo.configured
                               /\ ignoreWarningsButtonInfo.warningMode]
  /\ last' = Done("_onFocusOut", "none", 0, FALSE)
  /\ UNCHANGED <<validations, validationTable, _validations, groupMembers,
                 controls, vals, _schema>>
  /\ UNCHANGED <<tableVars, lifeVars, invalidVars, initVars, classVars>>

focusOut == \E name \in Fields, next \in Fields \cup {<<>>} : _onFocusOut(name, next)

\* The user types into the control of a name
type ==
  \E name \in Fields, text \in Texts :
    /\ count(name) = 1
    /\ vals' = put(vals, name, text)
    /\ ret' = <<>>
    /\ last' = Done("form", "none", 0, FALSE)
    /\ UNCHANGED <<validations, validationTable, _validations, groupMembers,
                   _groupValidationClasses, controls, formGroups,
                   ignoreWarningsButtonInfo, _schema>>
    /\ UNCHANGED <<tableVars, lifeVars, invalidVars, initVars, classVars>>

\* The view adds a control to its form (lines 167-168: controls may be added
\* dynamically); a first control of a name is empty
addControl ==
  \E name \in Fields :
    /\ count(name) < MaxControls
    /\ controls' = put(controls, name, count(name) + 1)
    /\ vals' = IF count(name) = 0 THEN put(vals, name, "") ELSE vals
    /\ ret' = <<>>
    /\ last' = Done("form", "none", 0, FALSE)
    /\ UNCHANGED <<validations, validationTable, _validations, groupMembers,
                   _groupValidationClasses, formGroups,
                   ignoreWarningsButtonInfo, _schema>>
    /\ UNCHANGED <<tableVars, lifeVars, invalidVars, initVars, classVars>>

\* The view takes a control off its form; the last control under a form-group
\* goes with its form-group
removeControl ==
  \E name \in Fields :
    /\ count(name) > 0
    /\ controls' = put(controls, name, count(name) - 1)
    /\ vals' = IF count(name) = 1 THEN put(vals, name, "") ELSE vals
    /\ formGroups' =
         IF count(name) = 1 /\ formGroupOf(name) = name
         THEN put(formGroups, name, {})
         ELSE formGroups
    /\ ret' = <<>>
    /\ last' = Done("form", "none", 0, FALSE)
    /\ UNCHANGED <<validations, validationTable, _validations, groupMembers,
                   _groupValidationClasses, ignoreWarningsButtonInfo, _schema>>
    /\ UNCHANGED <<tableVars, lifeVars, invalidVars, initVars, classVars>>

\* ------------------------------------------------------- init promises
\* The promises a view may hand to addInitPromise: the one the validation
\* mixin makes of SchemaCache.get(...).then(...) and two of the view's own
Promises == {"schema", "p1", "p2"}

\* The schema the schema promise resolves with
SchemaCols ==
  <<[name |-> <<"a">>, nullable |-> FALSE, has_default |-> FALSE],
    [name |-> <<"b">>, nullable |-> FALSE, has_default |-> FALSE]>>

\* this.__state, which lines 69 and 80 read: nothing ever assigns it
__state == "undefined"

\* setViewLoading() of lines 100-107 on a view state
setViewLoading(viewState) == IF viewState # "loading" THEN "loading" ELSE viewState

\* The view state addInitPromise leaves (lines 66-74), list being
\* this._initPromises before the call
viewStateOnAdd(list, viewState) ==
  IF list = <<>>
  THEN IF __state # "blank" /\ __state # "loading"
       THEN setViewLoading(viewState)
       ELSE viewState
  ELSE viewState

\* A variant of the join that is resolved by the first promise resolved
joinOutcome_any(ps, prom) ==
  IF \E p \in ps : prom[p] = "rejected" THEN "rejected"
  ELSE IF \E p \in ps : prom[p] = "resolved" THEN "resolved"
  ELSE "waiting"

\* $.when.apply(null, ps): rejected as soon as one of ps is, resolved when all
\* are
joinOutcome(ps, prom) ==
  IF \E p \in ps : prom[p] = "rejected" THEN "rejected"
  ELSE IF \A p \in ps : prom[p] = "resolved" THEN "resolved"
  ELSE "waiting"

\* The view state BaseView's onInitPromisesResolved leaves (lines 77-83)
viewStateOnResolved(viewState) ==
  IF __state = "undefined" \/ __state = "blank" \/ __state = "loading"
  THEN ""
  ELSE viewState

\* onInitPromisesResolved: BaseView's (lines 77-83), then the validation
\* mixin's (lines 296-329), which reads this._validations[col.name] for every
\* column when the schema (the value _schema has by then) is there, and
\* throws a TypeError when this._validations is null
onInitPromisesResolved(schema) ==
  /\ __viewState' = viewStateOnResolved(__viewState)
  /\ hooks' = [hooks EXCEPT !.resolved = @ + 1]
  /\ IF schema = <<>>
     THEN /\ UNCHANGED _validations
          /\ last' = Done("onInitPromisesResolved", "none", 0, FALSE)
     ELSE IF _validations.null
     THEN /\ UNCHANGED _validations
          /\ last' = Done("onInitPromisesResolved", "throw", 0, FALSE)
     ELSE /\ _validations' = [_validations EXCEPT
                                !.entries = autoValidations(@, schema)]
          /\ last' = Done("onInitPromisesResolved", "none", 0, FALSE)

\* onInitPromisesFailed (lines 85-89): nothing
onInitPromisesFailed ==
  /\ hooks' = [hooks EXCEPT !.failed = @ + 1]
  /\ last' = Done("onInitPromisesFailed", "none", 0, FALSE)
  /\ UNCHANGED <<__viewState, _validations>>

\* The callbacks of $.when(...).then(resolved, failed) for an outcome
joinCallbacks(outcome, schema) ==
  CASE outcome = "resolved" -> onInitPromisesResolved(schema)
    [] outcome = "rejected" -> onInitPromisesFailed
    [] OTHER -> /\ last' = Done("view", "none", 0, FALSE)
                /\ UNCHANGED <<hooks, __viewState, _validations>>

\* new View(): the constructor up to the call of initialize (lines 14-22)
construct ==
  /\ __initializing = "before"
  /\ __initializing' = "initialize"
  /\ ret' = <<>>
  /\ last' = Done("view", "none", 0, FALSE)
  /\ UNCHANGED <<_initPromises, promises, joined, __viewState, hooks>>
  /\ UNCHANGED <<tableVars, lifeVars, invalidVars, formVars, classVars>>

\* The validation mixin's initialize (lines 224-240): the schema promise may
\* be settled already when it is added (a cached schema), and then its
\* callback has set _schema
mixinInitialize ==
  /\ __initializing = "initialize"
  /\ \/ validations # <<>> /\ _validations.null
     \/ validationTable /\ promises["schema"] = "unused"
  /\ LET st == compile(validations)
     IN  IF validations # <<>> /\ st.err # "none"
         THEN /\ _validations' = [null |-> FALSE, entries |-> st.entries]
              /\ groupMembers' = st.members
              /\ __initializing' = "failed"
              /\ last' = Done("initialize", "throw", 0, FALSE)
              /\ UNCHANGED <<_initPromises, promises, __viewState, _schema>>
         ELSE /\ IF validations # <<>>
                 THEN /\ _validations' = [null |-> FALSE, entries |-> st.entries]
                      /\ groupMembers' = st.members
                 ELSE UNCHANGED <<_validations, groupMembers>>
              /\ IF validationTable
                 THEN \E s \in {"pending", "resolved", "rejected"} :
                        /\ promises' = [promises EXCEPT !["schema"] = s]
                        /\ _schema' = IF s = "resolved" THEN SchemaCols ELSE _schema
                        /\ _initPromises' = Append(_initPromises, "schema")
                        /\ __viewState' = viewStateOnAdd(_initPromises, __viewState)
                 ELSE UNCHANGED <<_initPromises, promises, __viewState, _schema>>
              /\ last' = Done("initialize", "none", 0, FALSE)
              /\ UNCHANGED __initializing
  /\ ret' = <<>>
  /\ UNCHANGED <<validations, validationTable, _groupValidationClasses, controls,
                 vals, formGroups, ignoreWarningsButtonInfo>>
  /\ UNCHANGED <<joined, hooks>>
  /\ UNCHANGED <<tableVars, lifeVars, invalidVars, classVars>>

\* addInitPromise(promise) with a promise of the view's own, settled or not:
\* in the view's initialize, or (it throws) once the constructor is through
addInitPromise ==
  \E p \in Promises \ {"schema"}, s \in {"pending", "resolved", "rejected"} :
    /\ promises[p] = "unused"
    /\ __initializing \in {"initialize", "done"}
    /\ IF __initializing # "initialize"
       THEN /\ last' = Done("addInitPromise", "throw", 0, FALSE)
            /\ UNCHANGED <<_initPromises, promises, __viewState>>
       ELSE /\ last' = Done("addInitPromise", "none", 0, FALSE)
            /\ promises' = [promises EXCEPT ![p] = s]
            /\ _initPromises' = Append(_initPromises, p)
            /\ __viewState' = viewStateOnAdd(_initPromises, __viewState)
    /\ ret' = <<>>
    /\ UNCHANGED <<__initializing, joined, hooks>>
    /\ UNCHANGED <<tableVars, lifeVars, invalidVars, formVars, classVars>>

\* setViewBlank, setViewLoading, setViewNotFound and setViewNormal (lines
\* 91-121), called by the view's initialize
setView ==
  \E s \in {"blank", "loading", "not-found", ""} :
    /\ __initializing = "initialize"
    /\ __viewState' = s
    /\ ret' = <<>>
    /\ last' = Done("view", "none", 0, FALSE)
    /\ UNCHANGED <<__initializing, _initPromises, promises, joined, hooks>>
    /\ UNCHANGED <<tableVars, lifeVars, invalidVars, formVars, classVars>>

\* The constructor after initialize (lines 24-46): __initializing is deleted,
\* and if init promises were added they are joined and _initPromises deleted;
\* promises settled by now have their callback run at once
constructed ==
  /\ __initializing = "initialize"
  /\ __initializing' = "done"
  /\ _initPromises' = <<>>
  /\ IF _initPromises = <<>>
     THEN /\ last' = Done("view", "none", 0, FALSE)
          /\ UNCHANGED <<joined, hooks, __viewState, _validations>>
     ELSE /\ joined' = [state    |-> joinOutcome(Range(_initPromises), promises),
                        promises |-> Range(_initPromises)]
          /\ joinCallbacks(joinOutcome(Range(_initPromises), promises), _schema)
  /\ ret' = <<>>
  /\ UNCHANGED promises
  /\ UNCHANGED <<validations, validationTable, groupMembers,
                 _groupValidationClasses, controls, vals, formGroups,
                 ignoreWarningsButtonInfo, _schema>>
  /\ UNCHANGED <<tableVars, lifeVars, invalidVars, classVars>>

\* A pending promise resolves or is rejected: the schema promise's callback
\* sets _schema (lines 235-237), and a waiting join that this settles runs its
\* callback
settle ==
  \E p \in Promises, s \in {"resolved", "rejected"} :
    /\ promises[p] = "pending"
    /\ promises' = [promises EXCEPT ![p] = s]
    /\ _schema' = IF p = "schema" /\ s = "resolved" THEN SchemaCols ELSE _schema
    /\ IF joined.state = "waiting" /\ p \in joined.promises
       THEN /\ joined' = [joined EXCEPT !.state = joinOutcome(joined.promises, promises')]
            /\ joinCallbacks(joinOutcome(joined.promises, promises'), _schema')
       ELSE /\ last' = Done("view", "none", 0, FALSE)
            /\ UNCHANGED <<joined, hooks, __viewState, _validations>>
    /\ ret' = <<>>
    /\ UNCHANGED <<__initializing, _initPromises>>
    /\ UNCHANGED <<validations, validationTable, groupMembers,
                   _groupValidationClasses, controls, vals, formGroups,
                   ignoreWarningsButtonInfo>>
    /\ UNCHANGED <<tableVars, lifeVars, invalidVars, classVars>>

\* -------------------------------------------------------- event merging
\* Three view classes, C extending B extending A extending BaseView, which
\* declares no events (nor does anything above it)
Classes == {"A", "B", "C"}

EventKeys == {"click", "change"}

\* Object.getPrototypeOf of a class's prototype: the prototype of its parent
\* class; "" for what lies above A
parentOf(c) ==
  CASE c = "C" -> "B"
    [] c = "B" -> "A"
    [] OTHER   -> ""

\* getOwnProperty(proto, '_mergedEvents') as lines 286 and 293 use it: the
\* prototype's own _mergedEvents
getOwnProperty(c, merged) == c \in merged

\* The while loop of mergeEvents (lines 292-307) from the prototype of
\* `parent` upwards, on the hash being completed
RECURSIVE mergeFrom(_, _, _, _)
mergeFrom(hash, parent, evs, merged) ==
  IF parent = "" THEN hash
  ELSE IF getOwnProperty(parent, merged) THEN hash
  ELSE mergeFrom(
         IF evs[parent].own
         THEN [k \in DOMAIN hash \cup DOMAIN evs[parent].hash |->
                 IF k \in DOMAIN hash THEN hash[k] ELSE evs[parent].hash[k]]
         ELSE hash,
         parentOf(parent), evs, merged)

\* mergeEvents() for an instance of class c (lines 273-310)
mergeEvents(c) ==
  IF ~events[c].own \/ getOwnProperty(c, _mergedEvents)
  THEN UNCHANGED <<events, _mergedEvents>>
  ELSE /\ events' = [events EXCEPT
                       ![c].hash = mergeFrom(@, parentOf(c), events, _mergedEvents)]
       /\ _mergedEvents' = _mergedEvents \cup {c}

\* new c(): the constructor's mergeEvents (line 16)
instantiate ==
  \E c \in Classes :
    /\ mergeEvents(c)
    /\ instantiated' = IF c \in Range(instantiated) THEN instantiated
                       ELSE Append(instantiated, c)
    /\ ret' = <<>>
    /\ last' = Done("mergeEvents", "none", 0, FALSE)
    /\ UNCHANGED <<tableVars, lifeVars, invalidVars, formVars, initVars>>

\* ------------------------------------------------------ specifications
Next ==
  \/ setRows
  \/ setFilter
  \/ onSort
  \/ onChangePage
  \/ add
  \/ findWhere
  \/ RowReplace
  \/ RowUpdate
  \/ RowRemove
  \/ removeWhere
  \/ RowHighlight

\* Every call, with any page number in the change-page event
Spec == Init /\ [][Next]_vars

NextInRange ==
  \/ setRows
  \/ setFilter
  \/ onSort
  \/ onChangePageInRange
  \/ add
  \/ findWhere
  \/ RowReplace
  \/ RowUpdate
  \/ RowRemove
  \/ removeWhere
  \/ RowHighlight

\* Every call, the change-page event only with the number of a page that exists
SpecInRange == Init /\ [][NextInRange]_vars

NextView ==
  \/ setRows
  \/ setFilter
  \/ onSort

\* Only setRows, setFilter and header clicks
SpecView == Init /\ [][NextView]_vars

NextCheck ==
  \/ setFilter
  \/ onSort
  \/ onChangePage
  \/ add
  \/ showCheckboxes
  \/ hideCheckboxes
  \/ onCheckAll
  \/ onUncheckAll
  \/ onToggleCheckboxes
  \/ onCheckboxChange
  \/ getCheckedObjects

\* The calls of a table with checkboxes
SpecCheck == Init /\ [][NextCheck]_vars

NextChild ==
  \/ setRows
  \/ setFilter
  \/ onChangePage
  \/ add
  \/ findWhere
  \/ RowReplace
  \/ RowRemove
  \/ RowCreateChild
  \/ RowRemoveChild

\* The calls of a table whose rows are given child rows
SpecChild == Init /\ [][NextChild]_vars

NextUpdate ==
  \/ onSort
  \/ showCheckboxes
  \/ onCheckboxChange
  \/ findWhere
  \/ RowUpdate

\* Row.update on a table whose records carry checkbox flags
SpecUpdate == Init /\ [][NextUpdate]_vars

NextPages == countPages

\* The page count functions on lengths and page sizes
SpecPages == Init /\ [][NextPages]_vars

\* A view about to compile the validations hash it was declared with
InitCompile ==
  /\ NoTable
  /\ ret = <<>>
  /\ last = Done("table", "none", 0, FALSE)
  /\ NoLife
  /\ NoInvalidate
  /\ validations \in Hashes
  /\ validationTable = FALSE
  /\ _validations = [null |-> TRUE, entries |-> <<>>]
  /\ groupMembers = <<>>
  /\ _groupValidationClasses = <<>>
  /\ controls = <<>>
  /\ vals = <<>>
  /\ formGroups = <<>>
  /\ ignoreWarningsButtonInfo = [configured |-> FALSE, warningMode |-> FALSE]
  /\ _schema = <<>>
  /\ NoInit
  /\ NoClasses

NextCompile == _createValidations

\* _createValidations on every validations hash of at most MaxKeys keys of at
\* most MaxNames names
SpecCompile == InitCompile /\ [][NextCompile]_vars

\* A form-group carrying any of the severity classes
InitClasses ==
  /\ NoTable
  /\ ret = <<>>
  /\ last = Done("table", "none", 0, FALSE)
  /\ NoLife
  /\ NoInvalidate
  /\ validations = <<>>
  /\ validationTable = FALSE
  /\ _validations = [null |-> TRUE, entries |-> <<>>]
  /\ groupMembers = <<>>
  /\ _groupValidationClasses = <<>>
  /\ controls = <<>>
  /\ vals = <<>>
  /\ \E cs \in SUBSET SeverityClasses : formGroups = put(<<>>, "fg", cs)
  /\ ignoreWarningsButtonInfo = [configured |-> FALSE, warningMode |-> FALSE]
  /\ _schema = <<>>
  /\ NoInit
  /\ NoClasses

NextClasses == applyClasses

\* _applyValidationClasses on every list of at most MaxClassNames classes
SpecClasses == InitClasses /\ [][NextClasses]_vars

\* The forms validate is run on: a and b in one group with b optional, both
\* on their own with b optional, both on their own and required to exist, and
\* a on its own with b from the schema of the validation table
Forms ==
  { [validations |-> <<[names |-> << <<"a", "{", "g", "}">>, <<"b", "{", "g", "}", "?">> >>,
                        rule  |-> "check"]>>,
     cols |-> <<>>],
    [validations |-> <<[names |-> << <<"a">> >>, rule |-> "check"],
                       [names |-> << <<"b", "?">> >>, rule |-> "required"]>>,
     cols |-> <<>>],
    [validations |-> <<[names |-> << <<"a">> >>, rule |-> "check"],
                       [names |-> << <<"b">> >>, rule |-> "required"]>>,
     cols |-> <<>>],
    [validations |-> <<[names |-> << <<"a">> >>, rule |-> "check"]>>,
     cols |-> <<[name |-> <<"b">>, nullable |-> FALSE, has_default |-> FALSE]>>],
    [validations |-> <<[names |-> << <<"a">> >>, rule |-> "check"]>>,
     cols |-> <<>>] }

\* A constructed and rendered view of one of the forms, its init promises
\* resolved, with the control a and maybe the control b, both empty
InitValidate ==
  /\ NoTable
  /\ ret = <<>>
  /\ last = Done("table", "none", 0, FALSE)
  /\ NoLife
  /\ NoInvalidate
  /\ \E f \in Forms :
       /\ validations = f.validations
       /\ validationTable = (f.cols # <<>>)
       /\ _validations = [null    |-> FALSE,
                          entries |-> autoValidations(compile(f.validations).entries,
                                                      f.cols)]
       /\ groupMembers = compile(f.validations).members
       /\ _schema = f.cols
  /\ _groupValidationClasses = <<>>
  /\ \E n \in 0..1 : controls = put(put(<<>>, <<"a">>, 1), <<"b">>, n)
  /\ vals = put(put(<<>>, <<"a">>, ""), <<"b">>, "")
  /\ formGroups = <<>>
  /\ \E c \in BOOLEAN :
       ignoreWarningsButtonInfo = [configured |-> c, warningMode |-> FALSE]
  /\ NoInit
  /\ NoClasses

NextValidate ==
  \/ type
  \/ focusOut
  \/ addControl
  \/ removeControl
  \/ validate

\* A form in use: typing, leaving controls, controls coming and going, validate
SpecValidate == InitValidate /\ [][NextValidate]_vars

\* The validations hash of the view under construction, when it has one
InitHash == <<[names |-> << <<"a">> >>, rule |-> "check"]>>

\* A view about to be constructed: with or without validations, with or
\* without validationTable
InitInit ==
  /\ NoTable
  /\ ret = <<>>
  /\ last = Done("table", "none", 0, FALSE)
  /\ NoLife
  /\ NoInvalidate
  /\ validations \in {<<>>, InitHash}
  /\ validationTable \in BOOLEAN
  /\ _validations = [null |-> TRUE, entries |-> <<>>]
  /\ groupMembers = <<>>
  /\ _groupValidationClasses = <<>>
  /\ controls = <<>>
  /\ vals = <<>>
  /\ formGroups = <<>>
  /\ ignoreWarningsButtonInfo = [configured |-> FALSE, warningMode |-> FALSE]
  /\ _schema = <<>>
  /\ __initializing = "before"
  /\ _initPromises = <<>>
  /\ promises = [p \in Promises |-> "unused"]
  /\ joined = [state |-> "none", promises |-> {}]
  /\ __viewState = ""
  /\ hooks = [resolved |-> 0, failed |-> 0]
  /\ NoClasses

NextInit ==
  \/ construct
  \/ mixinInitialize
  \/ addInitPromise
  \/ setView
  \/ constructed
  \/ settle

\* The construction of a view and the settling of its init promises
SpecInit == InitInit /\ [][NextInit]_vars

\* The same; the constructor is synchronous code and runs to its end
SpecInitLive == SpecInit /\ WF_vars(construct) /\ WF_vars(constructed)

\* The events hashes a class may be written with: none, or one that binds
\* some of the keys to handlers of the class (a handler goes by the name of
\* the class that declares it)
DeclaredEvents(c) ==
  {[own |-> FALSE, declared |-> <<>>, hash |-> <<>>]} \cup
  {[own |-> TRUE, declared |-> [k \in ks |-> c], hash |-> [k \in ks |-> c]] :
     ks \in SUBSET EventKeys}

\* The classes as written, none instantiated yet
InitEvents ==
  /\ NoTable
  /\ ret = <<>>
  /\ last = Done("table", "none", 0, FALSE)
  /\ NoLife
  /\ NoInvalidate
  /\ NoForm
  /\ NoInit
  /\ events \in [Classes -> UNION {DeclaredEvents(c) : c \in Classes}]
  /\ \A c \in Classes : events[c] \in DeclaredEvents(c)
  /\ _mergedEvents = {}
  /\ instantiated = <<>>

NextEvents == instantiate

\* Views of the three classes are made in any order
SpecEvents == InitEvents /\ [][NextEvents]_vars

\* ------------------------------------------------------------ the pager
\* TableViewPager.getTemplateContext for the table's zero-based page and its
\* number of pages: the one-based page links start..stop and the neighbours
getTemplateContext(pg, pages) ==
  LET window ==
        IF pages <= 9 THEN [start |-> 1, stop |-> pages]
        ELSE IF pg <= 4 THEN [start |-> 1, stop |-> 7]
        ELSE IF pages - pg <= 5 THEN [start |-> pages - 6, stop |-> pages]
        ELSE [start |-> pg - 3, stop |-> pg + 2]
  IN  [pages    |-> pages,
       current  |-> pg + 1,
       prevPage |-> IF pg = 0 THEN 0 ELSE pg,
       nextPage |-> IF pg = pages - 1 THEN 0 ELSE pg + 2,
       start    |-> window.start,
       stop     |-> window.stop]

\* The pager renders for a table of `length` records shown pageSize to a page
\* and standing on page pg
pagerContext ==
  \E length \in 1..MaxLength, pageSize \in 1..MaxPageSize :
    \E pg \in 0..(pagerPages(length, pageSize) - 1) :
      /\ ret' = [page |-> pg,
                 ctx  |-> getTemplateContext(pg, pagerPages(length, pageSize))]
      /\ last' = Done("pager", "none", 0, FALSE)
      /\ UNCHANGED tableVars
      /\ UNCHANGED viewVars

NextPager == pagerContext

\* The pager's template context on tables of every length and page
SpecPager == Init /\ [][NextPager]_vars

\* ------------------------------------------------- page and table indexes
\* The TR elements of tbody in document order: the TR of each drawn row followed
\* by its child rows (tr.table-view-child); `row` is the position in dom of the
\* drawn row a TR belongs to
RECURSIVE tbodyRows(_)
tbodyRows(dm) ==
  IF dm = <<>> THEN <<>>
  ELSE LET k == Len(dm) IN
       tbodyRows(SubSeq(dm, 1, k - 1))
         \o <<[child |-> FALSE, row |-> k]>>
         \o [j \in 1..dm[k].kids |-> [child |-> TRUE, row |-> k]]

\* tr.prevAll('tr.table-view-child').length for the TR at the zero-based
\* position pageIndex: 0 when no TR is there
prevAllChildren(trs, pageIndex) ==
  IF pageIndex < 0 \/ pageIndex >= Len(trs) THEN 0
  ELSE Cardinality({j \in 1..pageIndex : trs[j].child})

\* A variant that does not look for child rows
pageIndexToTableIndexOf_noChildren(trs, pg, pageIndex) ==
  (pg * PageSize) + pageIndex

\* pageIndexToTableIndex(pageIndex) on the TR elements trs of page pg
pageIndexToTableIndexOf(trs, pg, pageIndex) ==
  ((pg * PageSize) + pageIndex) - prevAllChildren(trs, pageIndex)

\* tableIndexToPageIndex(index): tr.index() of
\* `tbody > tr:not(.table-view-child):eq(pageIndex)`, -1 for an empty jQuery
\* object
tableIndexToPageIndex(trs, pg, index) ==
  IF tableIndexToPage(index) # pg THEN -1
  ELSE LET pageIndex == index - (pg * PageSize)
           parents   == {j \in 1..Len(trs) : ~trs[j].child}
           found     == {j \in parents :
                           Cardinality({h \in parents : h < j}) = pageIndex}
       IN  IF found = {} THEN -1 ELSE (CHOOSE j \in found : TRUE) - 1

\* tableIndexOfElement(el) for an element inside the TR at the zero-based
\* position pos of tbody
tableIndexOfElement(trs, pg, pos) ==
  LET tr == IF trs[pos + 1].child THEN pos - 1 ELSE pos
  IN  pageIndexToTableIndexOf(trs, pg, tr)

\* ---------------------------------------------------- the invalidate mixin
\* How many invalidate() calls of a view may wait for a render
MaxCalls == 3

\* A variant of the timer's callback that leaves this._invalid set
clearInvalid_never(inv, v) == inv

\* this._invalid = false of the timer's callback (line 15)
clearInvalid(inv, v) == [inv EXCEPT ![v] = FALSE]

\* view.invalidate() (lines 11-19), from the application or from inside a
\* render(): a timeout is set unless this._invalid is set
invalidate ==
  \E v \in Views :
    /\ calls[v] < MaxCalls
    /\ IF ~_invalid[v]
       THEN /\ _invalid' = [_invalid EXCEPT ![v] = TRUE]
            /\ timers' = Append(timers, v)
       ELSE UNCHANGED <<_invalid, timers>>
    /\ calls' = [calls EXCEPT ![v] = @ + 1]
    /\ ret' = <<>>
    /\ last' = Done("invalidate", "none", 0, FALSE)
    /\ UNCHANGED rendering
    /\ UNCHANGED <<tableVars, formVars, initVars, classVars, lifeVars>>

\* The oldest timeout fires (lines 14-17), no code running: this._invalid is
\* cleared and render() is called
timeout ==
  /\ timers # <<>>
  /\ rendering = ""
  /\ _invalid' = clearInvalid(_invalid, Head(timers))
  /\ rendering' = Head(timers)
  /\ timers' = Tail(timers)
  /\ calls' = [calls EXCEPT ![Head(timers)] = 0]
  /\ ret' = <<>>
  /\ last' = Done("render", "none", 0, FALSE)
  /\ UNCHANGED <<tableVars, formVars, initVars, classVars, lifeVars>>

\* The render() the timeout called returns
rendered ==
  /\ rendering # ""
  /\ rendering' = ""
  /\ ret' = <<>>
  /\ last' = Done("view", "none", 0, FALSE)
  /\ UNCHANGED <<_invalid, timers, calls>>
  /\ UNCHANGED <<tableVars, formVars, initVars, classVars, lifeVars>>

NextInvalidate ==
  \/ invalidate
  \/ timeout
  \/ rendered

\* Views that are invalidated and rendered by their timeouts
SpecInvalidate == Init /\ [][NextInvalidate]_vars

\* The same; the event loop runs a timeout that is due, and render() returns
SpecInvalidateLive == SpecInvalidate /\ WF_vars(timeout) /\ WF_vars(rendered)

\* ------------------------------------------------------ TableView.remove
\* How deep the calls of a script may nest before the engine throws a
\* RangeError
MaxStack == 4

\* cls.prototype.remove.call(this) at the call depth `depth`, on st: whether
\* the handlers of options.pager and of options.filter are bound, how often the
\* base view's removal has run, and how the call ended.  TableView's remove
\* (lines 563-569) takes the handlers off and calls TableView.prototype.remove;
\* any other class has BaseView's remove.
RECURSIVE prototypeRemove(_, _, _)
prototypeRemove(cls, st, depth) ==
  IF depth > MaxStack
  THEN [st EXCEPT !.err = "throw"]
  ELSE IF cls = "TableView"
  THEN prototypeRemove("TableView",
                       [st EXCEPT !.pager = FALSE, !.filter = FALSE],
                       depth + 1)
  ELSE [st EXCEPT !.removed = @ + 1]

\* table.remove() on a table made with or without options.pager and
\* options.filter
tableRemove ==
  \E pager \in BOOLEAN, withFilter \in BOOLEAN :
    LET st == prototypeRemove("TableView",
                              [pager |-> pager, filter |-> withFilter,
                               removed |-> 0, err |-> "none"], 1)
    IN  /\ ret' = [options |-> [pager |-> pager, filter |-> withFilter],
                   pager   |-> st.pager,
                   filter  |-> st.filter,
                   removed |-> st.removed]
        /\ last' = Done("TableView.remove", st.err, 0, FALSE)
        /\ UNCHANGED tableVars
        /\ UNCHANGED viewVars

NextRemove == tableRemove

\* The removal of a table
SpecRemove == Init /\ [][NextRemove]_vars

\* ------------------------------------------------- the life of a modal
\* How many Deferreds show() may make
MaxShows == 2

\* The values a modal is resolved with; "undefined" when none is passed
ModalValues == {"undefined", "ok"}

\* deferred.resolve(value) and deferred.reject() of lines 112 and 114 on the
\* Deferred d: a jQuery Deferred takes the first of them and ignores the rest
DeferredSettle(ds, d, state, value) ==
  [ds EXCEPT ![d] = IF @.state = "pending"
                    THEN [state |-> state, value |-> value, calls |-> @.calls + 1]
                    ELSE [@ EXCEPT !.calls = @ + 1]]

\* A variant that keeps this.deferred
_dismiss_keep(st, success, value) ==
  [st EXCEPT !.deferreds = IF st.deferred # 0
                           THEN DeferredSettle(@, st.deferred,
                                               IF success THEN "resolved" ELSE "rejected",
                                               IF success THEN value ELSE "undefined")
                           ELSE @,
             !.__modal = IF @ # "undefined" THEN "hidden" ELSE @]

\* _dismiss(success, value) (lines 107-120) on st: this.deferred, the Deferreds,
\* this.__modal
_dismiss(st, success, value) ==
  [st EXCEPT !.deferreds = IF st.deferred # 0
                           THEN DeferredSettle(@, st.deferred,
                                               IF success THEN "resolved" ELSE "rejected",
                                               IF success THEN value ELSE "undefined")
                           ELSE @,
             !.deferred = 0,
             !.__modal = IF @ # "undefined" THEN "hidden" ELSE @]

\* BaseModalView's cleanUp (lines 132-142); BaseView's (baseview.js:128-130),
\* which it calls, does nothing
cleanUp(st) == IF st.deferred # 0 THEN _dismiss(st, FALSE, "undefined") ELSE st

\* The modal as the operators above take it
Modal == [deferred |-> deferred, deferreds |-> deferreds, __modal |-> __modal]

\* show() (lines 93-105) on a view that has no Deferred (the assertion of line
\* 94) and has not been removed, in initialize or later: _show() (lines 65-91)
\* appends the element to the body and displays it
show ==
  /\ __initializing \in {"initialize", "done"}
  /\ ~el.removed
  /\ deferred = 0
  /\ Len(deferreds) < MaxShows
  /\ deferred' = Len(deferreds) + 1
  /\ deferreds' = Append(deferreds, [state |-> "pending", value |-> "undefined",
                                     calls |-> 0])
  /\ IF _initPromises # <<>>
     THEN \* There is already a loading indicator.  Wait until it completes.
          UNCHANGED <<__modal, el>>
     ELSE /\ __modal' = "shown"
          /\ el' = [el EXCEPT !.inDocument = TRUE]
  /\ ret' = <<>>
  /\ last' = Done("show", "none", 0, FALSE)
  /\ UNCHANGED <<tableVars, formVars, initVars, classVars, invalidVars>>

\* resolve(value) (lines 122-126)
resolve ==
  \E value \in ModalValues :
    /\ __initializing \in {"initialize", "done"}
    /\ deferred' = _dismiss(Modal, TRUE, value).deferred
    /\ deferreds' = _dismiss(Modal, TRUE, value).deferreds
    /\ __modal' = _dismiss(Modal, TRUE, value).__modal
    /\ ret' = <<value>>
    /\ last' = Done("resolve", "none", 0, FALSE)
    /\ UNCHANGED el
    /\ UNCHANGED <<tableVars, formVars, initVars, classVars, invalidVars>>

\* reject() (lines 128-130)
reject ==
  /\ __initializing \in {"initialize", "done"}
  /\ deferred' = _dismiss(Modal, FALSE, "undefined").deferred
  /\ deferreds' = _dismiss(Modal, FALSE, "undefined").deferreds
  /\ __modal' = _dismiss(Modal, FALSE, "undefined").__modal
  /\ ret' = <<>>
  /\ last' = Done("reject", "none", 0, FALSE)
  /\ UNCHANGED el
  /\ UNCHANGED <<tableVars, formVars, initVars, classVars, invalidVars>>

\* $.cleanData(elems) of baseview.js:352-358 for the view's element: the
\* 'baseview-removed' handler of the constructor (lines 26-29), when it is
\* bound, calls _cleanUp (lines 123-126): stopListening() and cleanUp(); then
\* jQuery takes the handlers off the element.  st also counts the calls.
cleanDataOf(st) ==
  IF st.handler
  THEN [cleanUp(st) EXCEPT !.cleanUps = @ + 1, !.stopListenings = @ + 1,
                           !.handler = FALSE]
  ELSE st

\* view.remove() (baseview.js:132-135): cleanUp(), then Backbone's remove:
\* this.$el.remove(), which has jQuery call $.cleanData for the element, and
\* stopListening()
removeOf(st) ==
  LET st1 == [cleanUp(st) EXCEPT !.cleanUps = @ + 1]
      st2 == cleanDataOf(st1)
  IN  [st2 EXCEPT !.stopListenings = @ + 1]

\* The view as cleanDataOf and removeOf take it: no call counted yet
Removing ==
  [deferred |-> deferred, deferreds |-> deferreds, __modal |-> __modal,
   handler |-> el.handler, cleanUps |-> 0, stopListenings |-> 0]

\* view.remove() on a constructed view.  ret keeps how often cleanUp and
\* stopListening ran.
remove ==
  /\ __initializing = "done"
  /\ ~el.removed
  /\ deferred' = removeOf(Removing).deferred
  /\ deferreds' = removeOf(Removing).deferreds
  /\ __modal' = removeOf(Removing).__modal
  /\ el' = [inDocument |-> FALSE, handler |-> removeOf(Removing).handler,
            removed |-> TRUE]
  /\ ret' = [cleanUp        |-> removeOf(Removing).cleanUps,
             stopListening  |-> removeOf(Removing).stopListenings]
  /\ last' = Done("view.remove", "none", 0, FALSE)
  /\ UNCHANGED <<tableVars, formVars, initVars, classVars, invalidVars>>

\* An ancestor of the view's element is removed from the document or rendered
\* anew (this.$el.html(...)): jQuery calls $.cleanData for the element
cleanData ==
  /\ __initializing = "done"
  /\ el.inDocument
  /\ deferred' = cleanDataOf(Removing).deferred
  /\ deferreds' = cleanDataOf(Removing).deferreds
  /\ __modal' = cleanDataOf(Removing).__modal
  /\ el' = [inDocument |-> FALSE, handler |-> cleanDataOf(Removing).handler,
            removed |-> TRUE]
  /\ ret' = [cleanUp        |-> cleanDataOf(Removing).cleanUps,
             stopListening  |-> cleanDataOf(Removing).stopListenings]
  /\ last' = Done("cleanData", "none", 0, FALSE)
  /\ UNCHANGED <<tableVars, formVars, initVars, classVars, invalidVars>>

\* The parent of a view appends the view's element to its own
attach ==
  /\ __initializing = "done"
  /\ ~el.removed
  /\ ~el.inDocument
  /\ el' = [el EXCEPT !.inDocument = TRUE]
  /\ ret' = <<>>
  /\ last' = Done("view", "none", 0, FALSE)
  /\ UNCHANGED <<deferred, deferreds, __modal>>
  /\ UNCHANGED <<tableVars, formVars, initVars, classVars, invalidVars>>

\* What validate() of a modal may return: the hook of lines 60-62 returns
\* undefined, the validation mixin's true or false, a view's own anything
ValidateReturns == {"undefined", "false", "true", "null", "0", "1"}

\* !value of JavaScript
Not(value) == value \in {"undefined", "false", "null", "0"}

\* if (!this.validate()) return; of lines 48-49
stops(value) == Not(value)

\* preSubmit(e) (lines 44-52) for a submit event of the form, validate()
\* returning value.  ret keeps the value and how often submit() was called.
preSubmit ==
  \E value \in ValidateReturns :
    /\ __initializing = "done"
    /\ el.inDocument
    /\ ret' = [validate |-> value, submit |-> IF stops(value) THEN 0 ELSE 1]
    /\ last' = Done("preSubmit", "none", 0, FALSE)
    /\ UNCHANGED <<tableVars, formVars, initVars, classVars, lifeVars, invalidVars>>

\* A modal about to be constructed
InitModal ==
  /\ NoTable
  /\ ret = <<>>
  /\ last = Done("table", "none", 0, FALSE)
  /\ NoLife
  /\ NoInvalidate
  /\ NoForm
  /\ __initializing = "before"
  /\ _initPromises = <<>>
  /\ promises = [p \in Promises |-> "unused"]
  /\ joined = [state |-> "none", promises |-> {}]
  /\ __viewState = ""
  /\ hooks = [resolved |-> 0, failed |-> 0]
  /\ NoClasses

NextModal ==
  \/ construct
  \/ addInitPromise
  \/ constructed
  \/ settle
  \/ show
  \/ resolve
  \/ reject
  \/ remove
  \/ cleanData
  \/ attach
  \/ preSubmit

\* A modal from its construction to its removal
SpecModal == InitModal /\ [][NextModal]_vars

\* -------------------------------------------------------------- claims
\* The current page shows at least one record
PageNotEmpty(pg, d) == 0 <= pg /\ pg * PageSize < Len(d)

\* C1: whenever this.data is non-empty, 0 <= page and page * pageSize <
\* data.length: the current page is never empty or out of range.
C1_PageInvariant == data # <<>> => PageNotEmpty(page, data)

\* The kept handle is valid and its record is the only record of the current
\* page, which is the last page and not page 0
SoleRowOfLastPage ==
  /\ row # NoRow
  /\ row.index >= 0
  /\ indexOf(data, row.data) >= 0
  /\ page > 0
  /\ page = _pageCount(data) - 1
  /\ Len(data) - page * PageSize = 1
  /\ tableIndexToPage(indexOf(data, row.data)) = page

\* C2: Row.remove() of the sole record of the last page, when that page is the
\* current page and not page 0, decrements the current page by one, and the new
\* current page is not empty.
C2_RemoveBacksUpAPage ==
  [][(SoleRowOfLastPage /\ last'.op = "remove")
       => (page' = page - 1 /\ PageNotEmpty(page', data'))]_vars

\* C3: the change-page event sets the current page to n only if
\* 0 <= n < pageCount; for any other n the current page is not set to n (a
\* page number the table is not already on).
C3_OutOfRangePageRejected ==
  [][\A n \in 0..MaxPage :
       (changePage(n) /\ ~(n < _pageCount(data)) /\ n # page) => page' # n]_vars

\* The number of slots of s that hold x
Count(s, x) == Cardinality({i \in 1..Len(s) : s[i] = x})

IsPermutation(s, t) ==
  /\ Len(s) = Len(t)
  /\ \A x \in Range(s) \cup Range(t) : Count(s, x) = Count(t, x)

\* C4: after any sequence of setRows, setFilter and header clicks, this.data
\* holds exactly the records of this.allRows that pass this.filter, in the order
\* of allRows unless a header click has sorted them, and every record of it
\* passes the filter.
C4_FilteredView ==
  /\ IsPermutation(data, filterRows(allRows, filter))
  /\ \A i \in 1..Len(data) : passes(filter, data[i])
  /\ sortInfo = NoSort => data = filterRows(allRows, filter)

\* A filter hides a record and a header click has reordered the others
C4_Witness ==
  /\ filter = "big"
  /\ sortInfo # NoSort
  /\ Len(data) >= 2
  /\ Len(data) < Len(allRows)
  /\ data # filterRows(allRows, filter)

\* s is in the order of column idx's comparator, ascending or descending
IsOrdered(s, idx, asc) ==
  \A i, j \in 1..Len(s) :
    i < j => IF asc THEN colCompare(idx, s[i], s[j]) <= 0
                    ELSE colCompare(idx, s[i], s[j]) >= 0

\* C5: whenever sortInfo is (idx, asc), this.data is in the order of column
\* idx's comparator, ascending if asc and descending otherwise.
C5_SortedWhileSortInfo ==
  sortInfo # NoSort => IsOrdered(data, sortInfo.idx, sortInfo.asc)

\* The call just made went through the kept Row handle
ByRow(ops) == last'.op \in ops

\* C6: Row.replace, Row.update and Row.remove change the slot of the record the
\* handle remembers, in this.data and in this.allRows, wherever that record is
\* now, and replace and update leave handle.index at the record's index.
C6_HandleActsOnItsRecord ==
  [][LET p == indexOf(data, row.data)
         q == indexOf(allRows, row.data)
     IN  (row # NoRow /\ p >= 0) =>
           /\ ByRow({"replace"}) =>
                /\ data' = setAt(data, p, row'.data)
                /\ allRows' = setAt(allRows, q, row'.data)
                /\ row'.index = p
                /\ heap' = heap
           /\ ByRow({"update"}) =>
                /\ data' = data
                /\ allRows' = allRows
                /\ row' = [index |-> p, data |-> row.data]
                /\ \A r \in Ids \ {row.data} : heap'[r] = heap[r]
           /\ (ByRow({"remove"}) /\ row.index >= 0) =>
                /\ data' = splice1(data, p)
                /\ allRows' = splice1(allRows, q)
                /\ heap' = heap
    ]_vars

\* Row.replace has just replaced a record that was no longer at the index the
\* handle remembered
C6_Witness == last.op = "replace" /\ last.err = "none" /\ last.moved

\* C7: Row.highlight acts on the displayed row of the record the handle
\* remembers, never on another record that now occupies the handle's old index.
C7_HighlightsItsRecord ==
  (last.op = "highlight" /\ last.hit # 0) => last.hit = row.data

C9_InvalidHandleIsNoOp ==
  [][(row # NoRow /\ row.index = -1
        /\ ByRow({"replace", "update", "remove", "highlight"}))
       => (allRows' = allRows /\ data' = data /\ page' = page)]_vars

\* C10: every element of this.data is an element of this.allRows.
C10_DataWithinAllRows == Range(data) \subseteq Range(allRows)

\* Row.replace or Row.remove has just changed both arrays while a filter hides
\* a record
C10_Witness ==
  /\ last.op \in {"replace", "remove"}
  /\ last.err = "none"
  /\ data # <<>>
  /\ Len(data) < Len(allRows)

\* C11: after add(record), this.data is this.filter applied to this.allRows, so
\* the added record is in this.data only if it passes the filter.
C11_AddKeepsDataFiltered ==
  [][add => data' = filterRows(allRows', filter')]_vars

\* Tied records of `after` are in the order they had in `before`
StableFrom(before, after, idx) ==
  \A i, j \in 1..Len(after) :
    (i < j /\ colCompare(idx, after[i], after[j]) = 0)
      => indexOf(before, after[i]) < indexOf(before, after[j])

\* Two records of s tie on column idx
HasTies(s, idx) ==
  \E i, j \in 1..Len(s) : i < j /\ colCompare(idx, s[i], s[j]) = 0

C13_SecondClickReverses ==
  [][\A idx \in ColIdx :
       (onSortCol(idx) /\ colInfos /\ hasSort(idx)
          /\ sortInfo # NoSort /\ sortInfo.idx = idx)
         => /\ Len(data') = Len(data)
            /\ \A i \in 1..Len(data) : data'[i] = data[Len(data) + 1 - i]
            /\ sortInfo' = [idx |-> idx, asc |-> ~sortInfo.asc]]_vars

\* A second click has left tied records in descending order
C13_Witness ==
  /\ sortInfo = [idx |-> 0, asc |-> FALSE]
  /\ Len(data) >= 2
  /\ HasTies(data, 0)
  /\ IsOrdered(data, 0, FALSE)
  /\ last.err = "none"

\* options.columns gives column idx no comparator: sort: false, or neither a
\* sort function nor a property
NoComparator(idx) == ~At(Columns, idx).sort \/ At(Columns, idx).property = ""

C15_UpdateRoundTrip ==
  [][\A v \in Vals :
       (RowUpdateTo(v) /\ indexOf(data, row.data) >= 0)
         => LET rec == row.data
                p   == indexOf(data, rec)
                q   == indexOf(allRows, rec)
            IN  /\ firstMatch([k |-> "id", v |-> rec])' = p
                /\ At(data', p) = rec
                /\ indexOf(allRows', rec) = q
                /\ heap'[rec].name = v
                /\ heap'[rec].checked = heap[rec].checked]_vars

\* Row.update has just changed a checked record that a sort had moved away from
\* the index its handle remembered
C15_Witness ==
  /\ last.op = "update"
  /\ last.err = "none"
  /\ last.moved
  /\ row # NoRow
  /\ heap[row.data].checked

\* C16: the page count is ceil(length / pageSize), 0 for length 0, and
\* _pageCount's floor((length + pageSize - 1) / pageSize) equals the Math.ceil of
\* renderPager and of the pager for every length >= 0 and pageSize >= 1.
C16_PageCountIsCeil ==
  last.op = "pages" =>
    /\ ret.pageCount = ret.pages
    /\ ret.pageCount * ret.pageSize >= ret.length
    /\ (ret.pageCount - 1) * ret.pageSize < ret.length \/ ret.length = 0
    /\ ret.length = 0 => ret.pageCount = 0

\* The counts of a length that is not a multiple of the page size, on more than
\* one page
C16_Witness ==
  /\ last.op = "pages"
  /\ ret.length % ret.pageSize # 0
  /\ ret.pageSize > 1
  /\ ret.pageCount > 1

\* The position in tbody (from 1) of the data row of a table index, 0 when the
\* index is negative or not among the rows of the rendered page
Displayed(index) ==
  LET pos == index - (page * PageSize) + 1
  IN  IF index >= 0 /\ pos >= 1 /\ pos <= Len(dom) THEN pos ELSE 0

\* C17: Row.createChild throws and leaves the child rows as they are when the
\* handle's index is negative, when its row is not on the rendered page, when
\* the row has a child already or when no content is given, and adds a child to
\* the row otherwise; Row.removeChild throws when the row is not on the page or
\* has no child, and removes the child otherwise.  No row has two child rows.
C17_ChildRowErrors ==
  [][/\ \A content \in BOOLEAN :
          RowCreateChildWith(content) =>
            LET pos == Displayed(row.index) IN
            IF pos = 0 \/ ~content \/ dom[pos].child
            THEN last'.err = "throw" /\ dom' = dom
            ELSE /\ last'.err = "none"
                 /\ dom' = [dom EXCEPT ![pos] = [rec |-> dom[pos].rec, child |-> TRUE, kids |-> 1]]
     /\ RowRemoveChild =>
          LET pos == Displayed(row.index) IN
          IF pos = 0 \/ ~dom[pos].child
          THEN last'.err = "throw" /\ dom' = dom
          ELSE /\ last'.err = "none"
               /\ dom' = [dom EXCEPT ![pos] = [rec |-> dom[pos].rec, child |-> FALSE, kids |-> 0]]
     /\ \A k \in 1..Len(dom') : dom'[k].kids = IF dom'[k].child THEN 1 ELSE 0
    ]_vars

\* Row.createChild has just been refused for a row that has a child
C17_Witness ==
  /\ last.op = "createChild"
  /\ last.err = "throw"
  /\ row # NoRow
  /\ Displayed(row.index) # 0
  /\ dom[Displayed(row.index)].child

\* A call that the claim lists as redrawing the page: setRows, setFilter, a sort,
\* a page change, add, a check-all / check-none / toggle, showing or hiding the
\* checkboxes, and Row.replace, Row.update or Row.remove of a row of the
\* current page
Rerenders ==
  \/ setRows
  \/ setFilter
  \/ \E idx \in ColIdx : onSortCol(idx) /\ colInfos /\ hasSort(idx)
  \/ onChangePage
  \/ add
  \/ onCheckAll
  \/ onUncheckAll
  \/ onToggleCheckboxes
  \/ (showCheckboxes /\ ~showingCheckboxes)
  \/ (hideCheckboxes /\ showingCheckboxes)
  \/ /\ ByRow({"replace", "update", "remove"})
     /\ last'.err = "none"
     /\ row.index >= 0
     /\ indexOf(data, row.data) >= 0
     /\ tableIndexToPage(indexOf(data, row.data)) = page

\* C18: right after a call that redraws the page no displayed row has a child
\* row, and hasChild is false for every table index.
C18_ChildRowsAreEphemeral ==
  [][Rerenders =>
       /\ \A k \in 1..Len(dom') : ~dom'[k].child /\ dom'[k].kids = 0
       /\ \A index \in 0..(MaxRec - 1) : ~_hasChild(dom', page', index)]_vars

\* The records of s whose checkbox flag is set, in the order of s
CheckedOf(s) == SelectSeq(s, LAMBDA r : heap[r].checked)

\* C19: getCheckedObjects throws when checkboxes are not shown; when they are
\* shown it returns the records of this.data whose flag is set, in the order of
\* this.data, and none that the current filter excludes.
C19_CheckedObjects ==
  last.op = "getCheckedObjects" =>
    IF ~showingCheckboxes
    THEN last.err = "throw"
    ELSE /\ last.err = "none"
         /\ ret = CheckedOf(data)
         /\ \A i \in 1..Len(ret) : passes(filter, ret[i])

\* The checkbox flag of every record
Flags(h) == [r \in Ids |-> h[r].checked]

\* C20: a header click, a page change, setFilter, hideCheckboxes and
\* showCheckboxes without an initialValue change no record's checkbox flag;
\* check-all, check-none and toggle change the flags of records of this.data
\* only.
C20_FlagsSurvive ==
  [][/\ (setFilter \/ onSort \/ onChangePage \/ hideCheckboxes
           \/ showCheckboxesWith("undefined"))
          => Flags(heap') = Flags(heap)
     /\ (onCheckAll \/ onUncheckAll \/ onToggleCheckboxes)
          => \A r \in Ids \ Range(data) : heap'[r].checked = heap[r].checked
    ]_vars

\* A record that the filter hides has kept its flag while check-none cleared
\* the flags of the records shown
C20_Witness ==
  /\ showingCheckboxes
  /\ filter = "big"
  /\ data # <<>>
  /\ \A i \in 1..Len(data) : ~heap[data[i]].checked
  /\ \E r \in Range(allRows) \ Range(data) : heap[r].checked

\* The names of a validations hash in the order _createValidations reads them
RECURSIVE declarations(_)
declarations(hash) ==
  IF hash = <<>> THEN <<>> ELSE Head(hash).names \o declarations(Tail(hash))

\* What a written name declares, read off its characters: the field is what
\* precedes the first marker, the name is optional when it has a "?", and
\* its group is what stands between "{" and "}"
markerPlaces(t) == {i \in 1..Len(t) : t[i] \in {"?", "{"}}

fieldOf(t) ==
  IF markerPlaces(t) = {} THEN t
  ELSE SubSeq(t, 1, (CHOOSE i \in markerPlaces(t) : \A j \in markerPlaces(t) : i <= j) - 1)

hasMark(t) == \E i \in 1..Len(t) : t[i] = "?"

tagOf(t) ==
  IF \E i, j \in 1..Len(t) : t[i] = "{" /\ t[j] = "}" /\ i < j
  THEN SubSeq(t, (CHOOSE i \in 1..Len(t) : t[i] = "{") + 1,
                 (CHOOSE j \in 1..Len(t) : t[j] = "}") - 1)
  ELSE <<>>

Optional(b) == IF b THEN <<"?">> ELSE <<>>

Tag(g) == IF g = <<>> THEN <<>> ELSE <<"{">> \o g \o <<"}">>

\* <field>[?][{<group>}]
IsMarkThenTag(t) == t = fieldOf(t) \o Optional(hasMark(t)) \o Tag(tagOf(t))

\* <field>[{<group>}][?]
IsTagThenMark(t) == t = fieldOf(t) \o Tag(tagOf(t)) \o Optional(hasMark(t))

DeclaredTwice(hash) ==
  \E i, j \in 1..Len(declarations(hash)) :
    i # j /\ fieldOf(declarations(hash)[i]) = fieldOf(declarations(hash)[j])

UnknownRule(hash) == \E k \in 1..Len(hash) : hash[k].rule \notin Methods

Compiled == last.op = "_createValidations"

\* C25: compiling a validations hash that declares a field more than once,
\* or that refers to a rule that is no method of the view, fails with an
\* error; it never keeps just one of two declarations of a field.
C25_BadHashFailsToCompile ==
  Compiled /\ (DeclaredTwice(validations) \/ UnknownRule(validations))
    => last.err = "throw"

\* The entry of the written name t is stored under its field alone, is
\* optional iff t has the "?", has t's group, and the field is a member of
\* its group for every entry of the group
CompiledAs(t) ==
  /\ entryOf(fieldOf(t)) # <<>>
  /\ entryOf(fieldOf(t))[1].mayNotExist = hasMark(t)
  /\ entryOf(fieldOf(t))[1].group = tagOf(t)
  /\ tagOf(t) # <<>> =>
       \A i \in 1..Len(_validations.entries) :
         _validations.entries[i].group = tagOf(t)
           => fieldOf(t) \in Range(groupMembersOf(_validations.entries[i]))

\* C26 as stated: after a compile that did not throw, of a hash that declares
\* no field twice, every name written <field>[?][{<group>}] has an entry under
\* <field> alone, optional iff the "?" is there, with the group of its tag, and
\* its field is in the member list of every entry of the group.
C26_NameForms ==
  Compiled /\ last.err = "none" /\ ~DeclaredTwice(validations)
    => \A i \in 1..Len(declarations(validations)) :
         IsMarkThenTag(declarations(validations)[i])
           => CompiledAs(declarations(validations)[i])

\* C26 amended: after a compile that did not throw, every name written
\* <field>[{<group>}][?] (the "?" last) that is the last declaration of its
\* field has an entry under <field> alone, optional iff the "?" is there, with
\* the group of its tag, and its field is in the member list of every entry of
\* the group.
C26_TagThenMarkForms ==
  Compiled /\ last.err = "none"
    => \A i \in 1..Len(declarations(validations)) :
         /\ IsTagThenMark(declarations(validations)[i])
         /\ \A j \in (i + 1)..Len(declarations(validations)) :
              fieldOf(declarations(validations)[j]) # fieldOf(declarations(validations)[i])
         => CompiledAs(declarations(validations)[i])

\* "a{g}? b{g}" has been compiled: a is optional, and both are members of g
C26_Witness ==
  /\ Compiled /\ last.err = "none"
  /\ validations = <<[names |-> << <<"a", "{", "g", "}", "?">>, <<"b", "{", "g", "}">> >>,
                      rule  |-> "check"]>>
  /\ entryOf(<<"a">>) # <<>>
  /\ entryOf(<<"a">>)[1].mayNotExist
  /\ groupMembersOf(entryOf(<<"b">>)[1]) = << <<"a">>, <<"b">> >>

\* The place of a class in the order none < has-success < has-warning <
\* has-error; null, absent and unknown classes count as none
Severity(c) ==
  CASE c = "has-error"   -> 3
    [] c = "has-warning" -> 2
    [] c = "has-success" -> 1
    [] OTHER             -> 0

\* The class of the most severe of a list of classes; "null" for none
MostSevere(classNames) ==
  IF \E i \in 1..Len(classNames) : Severity(classNames[i]) > 0
  THEN classNames[CHOOSE i \in 1..Len(classNames) :
                    \A j \in 1..Len(classNames) :
                      Severity(classNames[j]) <= Severity(classNames[i])]
  ELSE "null"

\* C21: after _applyValidationClasses the form-group carries the most severe
\* of the classes of the list under none < has-success < has-warning <
\* has-error (null and unknown entries count as none) and no other severity
\* class; it carries none of the three when the most severe is none.
C21_GroupReduction ==
  last.op = "_applyValidationClasses"
    => formGroups["fg"] \cap SeverityClasses =
         IF MostSevere(ret) = "null" THEN {} ELSE {MostSevere(ret)}

\* a = has-error, b = none gives has-error
C21_Witness ==
  /\ last.op = "_applyValidationClasses"
  /\ ret = <<"has-error", "null">>
  /\ formGroups["fg"] = {"has-error"}

\* The entries validate runs the rule of: those with exactly one control
Present == {i \in 1..Len(_validations.entries) : count(_validations.entries[i].name) = 1}

\* The class the rule of the i-th entry gives for the text of its control
ResultOf(i) ==
  RuleResult(_validations.entries[i].func,
             get(vals, _validations.entries[i].name, ""),
             _validations.entries[i].col)

\* A call of validate that returned
Validates == last'.op = "validate" /\ last'.err = "none"

\* C22: a validate() that returns has run the rule of every entry whose
\* control is present and returns false exactly when one of these rules gave
\* has-error; without ignore-warnings button warnings do not block.
C22_FalseIffErrorThisPass ==
  [][Validates =>
       /\ (\E i \in Present : ResultOf(i) = "has-error") => ret' = <<FALSE>>
       /\ (\A i \in Present : ResultOf(i) # "has-error")
            /\ ~ignoreWarningsButtonInfo.configured => ret' = <<TRUE>>]_vars

\* C23: with the ignore-warnings button configured, a validate() that leaves
\* no has-error but a has-warning on the form returns false and enters the
\* warning mode when the mode was off, and returns true when it was on; the
\* mode, once on, stays on until focus leaves a control; with a has-error on
\* the form validate() returns false whatever the mode.
C23_WarningsAcknowledged ==
  [][/\ Validates /\ ignoreWarningsButtonInfo.configured =>
          /\ hasClass(formGroups', "has-error") =>
               /\ ret' = <<FALSE>>
               /\ UNCHANGED ignoreWarningsButtonInfo
          /\ ~hasClass(formGroups', "has-error")
               /\ hasClass(formGroups', "has-warning")
               /\ ~ignoreWarningsButtonInfo.warningMode =>
               /\ ret' = <<FALSE>>
               /\ ignoreWarningsButtonInfo'.warningMode
          /\ ~hasClass(formGroups', "has-error")
               /\ ignoreWarningsButtonInfo.warningMode =>
               ret' = <<TRUE>>
     /\ ignoreWarningsButtonInfo.warningMode /\ ~ignoreWarningsButtonInfo'.warningMode
          => last'.op = "_onFocusOut"]_vars

\* A second validate() has returned true in the warning mode, with a warning
\* and no error on the form
C23_Witness ==
  /\ last.op = "validate"
  /\ ret = <<TRUE>>
  /\ ignoreWarningsButtonInfo.warningMode
  /\ hasClass(formGroups, "has-warning")
  /\ ~hasClass(formGroups, "has-error")

\* An entry that makes validate throw: not exactly one control, and not an
\* absent optional or generated one
Misses(i) ==
  /\ count(_validations.entries[i].name) # 1
  /\ ~(/\ count(_validations.entries[i].name) = 0
       /\ (_validations.entries[i].mayNotExist \/ _validations.entries[i].generated))

\* C24: validate() throws exactly when an entry does not have exactly one
\* control, absent optional and absent generated entries aside; an entry
\* that is neither optional nor generated and has no control, or several,
\* makes it throw.
C24_SetupErrorPropagates ==
  [][last'.op = "validate" =>
       /\ (last'.err = "throw") = (\E i \in 1..Len(_validations.entries) : Misses(i))
       /\ (\E i \in 1..Len(_validations.entries) :
             /\ ~_validations.entries[i].mayNotExist
             /\ ~_validations.entries[i].generated
             /\ count(_validations.entries[i].name) # 1) => last'.err = "throw"]_vars

\* validate() threw for the missing control of b, which must exist
C24_Witness ==
  /\ last.op = "validate"
  /\ last.err = "throw"
  /\ count(<<"b">>) = 0
  /\ entryOf(<<"b">>) # <<>>
  /\ ~entryOf(<<"b">>)[1].mayNotExist

\* The entries _createValidations makes of the view's validations hash
ManualEntries == compile(validations).entries

\* The view is constructed and all its init promises have resolved
InitResolved == __initializing = "done" /\ joined.state = "resolved"

\* C27: in a view with validationTable set, with or without validations hash,
\* once the view is constructed and its init promises (the schema promise
\* among them) have resolved, every column of the schema has an entry, a
\* generated and optional one when the validations hash has no entry of
\* that name, and every entry of the hash is still there; an entry is
\* generated only when the schema promise has resolved.
C27_AutoValidation ==
  /\ validationTable /\ InitResolved =>
       /\ \A i \in 1..Len(SchemaCols) :
            /\ entryOf(SchemaCols[i].name) # <<>>
            /\ (\A j \in 1..Len(ManualEntries) :
                  ManualEntries[j].name # SchemaCols[i].name)
                 => /\ entryOf(SchemaCols[i].name)[1].generated
                    /\ entryOf(SchemaCols[i].name)[1].mayNotExist
       /\ \A j \in 1..Len(ManualEntries) :
            entryOf(ManualEntries[j].name) = <<ManualEntries[j]>>
  /\ (\E i \in 1..Len(_validations.entries) : _validations.entries[i].generated)
       => promises["schema"] = "resolved"

\* The promises added with addInitPromise so far
Added ==
  IF __initializing = "initialize" THEN Range(_initPromises) ELSE joined.promises

\* What holds of the two hooks at any time
HooksInOrder ==
  /\ hooks.resolved <= 1
  /\ hooks.resolved = 1 =>
       /\ __initializing = "done"
       /\ \A p \in joined.promises : promises[p] = "resolved"
  /\ __initializing = "done" /\ (\E p \in joined.promises : promises[p] = "rejected")
       => hooks.failed = 1 /\ hooks.resolved = 0
  /\ __initializing = "done" /\ joined.promises = {}
       => hooks.failed = 0 /\ hooks.resolved = 0

\* Init promises were added and all of them have resolved
AllResolved ==
  /\ __initializing \in {"initialize", "done"}
  /\ Added # {}
  /\ \A p \in Added : promises[p] = "resolved"

\* C28: onInitPromisesResolved runs at most once and only when the view is
\* constructed and every promise added during initialize has resolved; when
\* one of them is rejected onInitPromisesFailed runs and
\* onInitPromisesResolved never does; when none was added neither runs.  If
\* from some time on promises have been added and all have resolved, then
\* onInitPromisesResolved runs and the view state becomes normal.
C28_InitPromiseJoin ==
  /\ []HooksInOrder
  /\ <>[]AllResolved => <>(hooks.resolved = 1 /\ __viewState = "")

\* Two init promises were added; both have resolved, the hook has run and the
\* view state is normal
C28_Witness ==
  /\ __initializing = "done"
  /\ Cardinality(joined.promises) = 2
  /\ joined.state = "resolved"
  /\ hooks = [resolved |-> 1, failed |-> 0]
  /\ __viewState = ""

\* C29: the first addInitPromise of a view sets the view state to loading
\* when none is set and leaves it alone when it is blank or loading; a later
\* addInitPromise leaves the view state alone; an addInitPromise outside
\* initialize throws and changes nothing.
C29_FirstAddSetsLoading ==
  [][/\ Len(_initPromises') = Len(_initPromises) + 1 =>
          /\ _initPromises = <<>> /\ __viewState = "" => __viewState' = "loading"
          /\ _initPromises = <<>> /\ __viewState \in {"blank", "loading"}
               => __viewState' = __viewState
          /\ _initPromises # <<>> => __viewState' = __viewState
     /\ last'.op = "addInitPromise" /\ last'.err = "throw"
          => UNCHANGED <<formVars, initVars>>]_vars

\* The class whose events hash the instances of c use: the nearest one from c
\* upwards that has an events hash of its own ("" when none has)
RECURSIVE EventsHolder(_)
EventsHolder(c) ==
  IF c = "" THEN ""
  ELSE IF events[c].own THEN c
  ELSE EventsHolder(parentOf(c))

\* The nearest class from c upwards that declares the key ("" when none does)
RECURSIVE NearestDeclaring(_, _)
NearestDeclaring(c, k) ==
  IF c = "" THEN ""
  ELSE IF k \in DOMAIN events[c].declared THEN c
  ELSE NearestDeclaring(parentOf(c), k)

\* C30: once a class has been instantiated, the events hash its instances
\* use has every key that the class or one of its ancestors declares, bound
\* to the handler of the nearest class declaring it (whatever the order the
\* classes were first instantiated in).
C30_EventsOfWholeHierarchy ==
  \A c \in Range(instantiated) :
    \A k \in EventKeys :
      NearestDeclaring(c, k) # "" =>
        /\ EventsHolder(c) # ""
        /\ k \in DOMAIN events[EventsHolder(c)].hash
        /\ events[EventsHolder(c)].hash[k] = NearestDeclaring(c, k)

\* C37: with more than 9 pages and the current page in the middle (page > 4
\* and pages - page > 5) the page links start..stop are the two pages before
\* the current page, the current page and the two pages after it; and always
\* 1 <= start <= page + 1 <= stop <= pages.
C37_PagerWindow ==
  last.op = "pager" =>
    LET pg  == ret.page
        ctx == ret.ctx
    IN  /\ ctx.pages > 9 /\ pg > 4 /\ ctx.pages - pg > 5
          => ctx.start = (pg + 1) - 2 /\ ctx.stop = (pg + 1) + 2
        /\ 1 <= ctx.start
        /\ ctx.start <= pg + 1
        /\ pg + 1 <= ctx.stop
        /\ ctx.stop <= ctx.pages

\* The table indexes of the records of the current page
OnCurrentPage == {i \in 0..(Len(data) - 1) : tableIndexToPage(i) = page}

\* C38: for every table index i on the current page, whatever rows of the page
\* carry a child row, pageIndexToTableIndex(tableIndexToPageIndex(i)) = i;
\* tableIndexToPageIndex is -1 for an index that is not on the current page;
\* tableIndexOfElement of a child row is the table index of its parent row.
C38_IndexRoundTrip ==
  LET trs == tbodyRows(dom) IN
  /\ \A i \in OnCurrentPage :
       pageIndexToTableIndexOf(trs, page, tableIndexToPageIndex(trs, page, i)) = i
  /\ \A i \in (-1)..(MaxRec + 1) :
       tableIndexToPage(i) # page => tableIndexToPageIndex(trs, page, i) = -1
  /\ \A pos \in 0..(Len(trs) - 1) :
       trs[pos + 1].child =>
         tableIndexOfElement(trs, page, pos) = (page * PageSize) + (trs[pos + 1].row - 1)

\* Both rows of the first page carry a child row and the table has a second page
C38_Witness ==
  /\ Len(dom) = 2
  /\ dom[1].child
  /\ dom[2].child
  /\ Len(data) > PageSize
  /\ OnCurrentPage = {0, 1}

\* Focus has left the control of a name that has a validation entry
FocusLeft == last'.op = "_onFocusOut" /\ entryOf(ret'.name) # <<>>

\* The class cached for a name in the cache of a group, "none" when there is none
CachedClass(cache, g, name) ==
  LET pairs == get(cache, g, <<>>)
  IN  IF \E i \in 1..Len(pairs) : pairs[i].name = name
      THEN pairs[CHOOSE i \in 1..Len(pairs) : pairs[i].name = name].cls
      ELSE "none"

\* The severity classes the form-group of a group shows
Shown(fgs, g) == get(fgs, g, {}) \cap SeverityClasses

\* next names a member of the group of the entry e
InGroupOf(e, next) ==
  /\ entryOf(next) # <<>>
  /\ entryOf(next)[1].group = e.group

\* C35: when focus leaves a field of a group, the class of its rule is put
\* into the group's cache under the field's name and the classes cached for
\* the other names stay; when focus goes to a member of the same group the
\* form-groups are unchanged; when it goes elsewhere the form-group of the
\* group shows the most severe of the cached classes, so that an error cached
\* for another member stays shown.
C35_GroupOnFocusOut ==
  [][FocusLeft /\ entryOf(ret'.name)[1].group # <<>> =>
       LET e == entryOf(ret'.name)[1]
           g == e.group
       IN  /\ CachedClass(_groupValidationClasses', g, e.name)
                = RuleResult(e.func, get(vals, e.name, ""), e.col)
           /\ \A f \in Fields \ {e.name} :
                CachedClass(_groupValidationClasses', g, f)
                  = CachedClass(_groupValidationClasses, g, f)
           /\ InGroupOf(e, ret'.next) => formGroups' = formGroups
           /\ ~InGroupOf(e, ret'.next) =>
                /\ Shown(formGroups', g) =
                     IF MostSevere(values(_groupValidationClasses'[g])) = "null" THEN {}
                     ELSE {MostSevere(values(_groupValidationClasses'[g]))}
                /\ (\E f \in Fields \ {e.name} :
                      CachedClass(_groupValidationClasses, g, f) = "has-error")
                     => "has-error" \in Shown(formGroups', g)]_vars

\* Focus has left the group through its second member, whose rule found
\* nothing, and the group shows the error cached for the first member
C35_Witness ==
  /\ last.op = "_onFocusOut"
  /\ ret.name = <<"b">>
  /\ ret.next = <<>>
  /\ CachedClass(_groupValidationClasses, <<"g">>, <<"a">>) = "has-error"
  /\ CachedClass(_groupValidationClasses, <<"g">>, <<"b">>) = "null"
  /\ Shown(formGroups, <<"g">>) = {"has-error"}

\* C36: a focus-out from a control with a validation entry in the warning mode
\* switches the mode off, and a validate() that then leaves a warning and no
\* error on the form returns false and switches it on again; a focus-out from
\* a control without validation entry leaves the mode as it is.
C36_FocusOutResetsWarningMode ==
  [][/\ FocusLeft /\ ignoreWarningsButtonInfo.configured
          => ~ignoreWarningsButtonInfo'.warningMode
     /\ last'.op = "_onFocusOut" /\ entryOf(ret'.name) = <<>>
          => UNCHANGED ignoreWarningsButtonInfo
     /\ (/\ Validates
         /\ ignoreWarningsButtonInfo.configured
         /\ ~ignoreWarningsButtonInfo.warningMode
         /\ hasClass(formGroups', "has-warning")
         /\ ~hasClass(formGroups', "has-error"))
          => /\ ret' = <<FALSE>>
             /\ ignoreWarningsButtonInfo'.warningMode]_vars

\* A focus-out has switched the warning mode off while a warning is shown
C36_Witness ==
  /\ last.op = "_onFocusOut"
  /\ ret.reset
  /\ ~ignoreWarningsButtonInfo.warningMode
  /\ hasClass(formGroups, "has-warning")
  /\ ~hasClass(formGroups, "has-error")

\* The timeouts of a view that are pending
Pending(v) == {i \in 1..Len(timers) : timers[i] = v}

\* C39: a view has at most one timeout pending, and has one whenever an
\* invalidate() waits for its render; the timeout that fires answers every
\* invalidate() made before it with the one render() it starts and leaves no
\* timeout of the view behind; a timeout only fires after an invalidate(); and
\* every invalidate(), also one made while render() runs, is followed by the
\* start of a render().
C39_InvalidateCoalescing ==
  /\ [](\A v \in Views :
          /\ Cardinality(Pending(v)) <= 1
          /\ calls[v] > 0 => Pending(v) # {})
  /\ [][\A v \in Views :
          rendering' = v /\ rendering # v =>
            /\ calls[v] > 0
            /\ Cardinality(Pending(v)) = 1
            /\ Pending(v)' = {}]_vars
  /\ \A v \in Views : (calls[v] > 0) ~> (calls[v] = 0)

\* Two invalidate() calls wait for the one timeout of a view, made while the
\* render() of the view runs
C39_Witness ==
  /\ rendering = "v1"
  /\ calls["v1"] = 2
  /\ Cardinality(Pending("v1")) = 1

\* C40: TableView.remove() returns, with the handlers of the pager and of the
\* filter taken off and the base view's removal done exactly once.
C40_TableRemoveTerminates ==
  last.op = "TableView.remove" =>
    /\ last.err = "none"
    /\ ~ret.pager
    /\ ~ret.filter
    /\ ret.removed = 1

\* C31: when a view leaves the DOM, by view.remove() or because jQuery cleans
\* its element with an ancestor, stopListening has run for it and cleanUp has
\* run exactly once.
C31_CleanUpOncePerRemoval ==
  last.op \in {"view.remove", "cleanData"} =>
    /\ ret.stopListening >= 1
    /\ ret.cleanUp = 1

\* The Deferreds that show() has returned
Returned == 1..Len(deferreds)

\* What holds of the Deferreds of a modal at any time
SettledOnce ==
  /\ \A d \in Returned :
       /\ deferreds[d].calls <= 1
       /\ deferreds[d].calls = 0 <=> deferreds[d].state = "pending"
       /\ d # deferred => deferreds[d].state # "pending"
  /\ el.removed => \A d \in Returned : deferreds[d].state # "pending"

Displays == __modal' = "shown" /\ __modal # "shown"

\* C33: a modal is displayed only when every init promise added has resolved;
\* when the init promises of a modal that show() was called on resolve, the
\* modal is displayed; when one of them is rejected, the Deferred of show() is
\* rejected.
C33_ShowWaitsForInitPromises ==
  [][/\ Displays => \A p \in Added' : promises'[p] = "resolved"
     /\ deferred # 0 /\ joined'.state = "resolved" /\ joined.state # "resolved"
          => __modal' = "shown"
     /\ deferred # 0 /\ joined'.state = "rejected" /\ joined.state # "rejected"
          => deferreds'[deferred].state = "rejected"]_vars

\* C34: preSubmit calls submit() exactly once unless validate() returns false,
\* and does not call it when validate() returns false.
C34_SubmitUnlessFalse ==
  last.op = "preSubmit" =>
    /\ ret.validate = "false" => ret.submit = 0
    /\ ret.validate # "false" => ret.submit = 1

====
